---- MODULE Spec2Model ----
(***************************************************************************)
(* License compliance scanner (skills/license-compliance/scripts).         *)
(*                                                                         *)
(* Strings are sequences of characters.  A "character" of the model is an  *)
(* opaque chunk of text ("MIT", " ", "OR", "/", "(" ...); the chunks are    *)
(* chosen so that a Python substring test, split or strip on the real text *)
(* is the same test on the chunk sequence.  Package names and glob         *)
(* patterns are spelled one letter per element.                            *)
(* Optional values (Python None) are sequences of length 0 or 1.           *)
(***************************************************************************)
EXTENDS Integers, Sequences, FiniteSets, TLC

VARIABLES
    call,          \* SpecEval: the pure call under test (function and arguments)
    ret,           \* SpecEval: <<>> before the call returns, <<value>> after
    cfg,           \* the classification configuration (config JSON)
    packages,      \* classify_packages: the dependency records (extractor output)
    registry,      \* the answers of the package registry, by package name
    ecosystem,     \* scan_project: registry tag handed to classify_packages
    hasGit,        \* scan_project: (project_path / ".git").exists()
    pc,            \* position of the scan: "first", "second", "classified", ...
    idx,           \* loop index of the pass in progress
    results,       \* classify_packages: the five tier buckets
    unknown_pkgs,  \* classify_packages: records left unknown by the first pass
    lookups,       \* names requested from the registry so far (second pass)
    output,        \* scan_project: <<>> or <<the returned dict>>
    prev,          \* <<>> or <<name, license and tier per bucket of the previous run>>
    project,       \* the project directory and its surroundings (files, tools, history)
    pm,            \* main: <<>> or <<the package manager tag>>
    proc,          \* main: what the process wrote to stdout and how it ended
    blame,         \* trace_blame_for_violations: the blame dict attached to each violation
    repo,          \* the git checkout: is it shallow, and the git commands run in it
    tmpdir,        \* main --repo: the temporary clone directory ("none", "exists", "removed")
    tracker,       \* org_scanner: the tracker dict in memory
    disk,          \* org_scanner: the tracker file on disk
    org            \* org_scanner: the run in progress (candidates, position, counters)

vars == <<call, ret, cfg, packages, registry, ecosystem, hasGit, pc, idx,
          results, unknown_pkgs, lookups, output, prev, project, pm, proc, blame,
          repo, tmpdir, tracker, disk, org>>

(* what only the org scanner changes *)
orgVars == <<tracker, disk, org>>

(* what only main, the blame tracer and the org scanner change *)
mainVars == <<project, pm, proc, blame, repo, tmpdir, orgVars>>

----------------------------------------------------------------------------
(* Bounds of the model *)

MaxOperands == 3
MaxPkgs == 2

----------------------------------------------------------------------------
(* Python str primitives on chunk sequences *)

Whitespace == {" "}
Parens == {"(", ")"}

MatchAt(s, sep, i) ==
    /\ i >= 1
    /\ i + Len(sep) - 1 <= Len(s)
    /\ SubSeq(s, i, i + Len(sep) - 1) = sep

(* `sep in s` *)
Contains(s, sep) == \E i \in 1..Len(s) : MatchAt(s, sep, i)

(* s.startswith(prefix) *)
StartsWith(s, prefix) == Len(prefix) = 0 \/ MatchAt(s, prefix, 1)

FirstMatch(s, sep) == CHOOSE i \in 1..Len(s) :
    /\ MatchAt(s, sep, i)
    /\ \A j \in 1..(i - 1) : ~MatchAt(s, sep, j)

RECURSIVE Split(_, _)
(* s.split(sep): leftmost non-overlapping occurrences, empty pieces kept *)
Split(s, sep) ==
    IF ~Contains(s, sep) THEN <<s>>
    ELSE LET i == FirstMatch(s, sep)
         IN  <<SubSeq(s, 1, i - 1)>> \o Split(SubSeq(s, i + Len(sep), Len(s)), sep)

RECURSIVE LStrip(_, _)
LStrip(s, chars) ==
    IF Len(s) > 0 /\ Head(s) \in chars THEN LStrip(Tail(s), chars) ELSE s

RECURSIVE RStrip(_, _)
RStrip(s, chars) ==
    IF Len(s) > 0 /\ s[Len(s)] \in chars THEN RStrip(SubSeq(s, 1, Len(s) - 1), chars) ELSE s

(* s.strip() / s.strip("()") *)
Strip(s, chars) == RStrip(LStrip(s, chars), chars)

(* str.upper() on the chunks of the model that hold lower-case letters *)
UpperChunk(c) ==
    CASE c = "see" -> "SEE"
      [] c = "license" -> "LICENSE"
      [] c = "in" -> "IN"
      [] c = "Unknown" -> "UNKNOWN"
      [] c = "Foo" -> "FOO"
      [] c = "Bar" -> "BAR"
      [] c = "Apache" -> "APACHE"
      [] c = "Elastic" -> "ELASTIC"
      [] OTHER -> c

Upper(s) == [i \in 1..Len(s) |-> UpperChunk(s[i])]

RECURSIVE FnMatch(_, _)
(* fnmatch.fnmatch(name, pat) on POSIX: "*" any run of characters, "?" any one
   character, every other character itself (no "[" in the patterns drawn) *)
FnMatch(name, pat) ==
    IF Len(pat) = 0 THEN Len(name) = 0
    ELSE IF Head(pat) = "*"
         THEN \/ FnMatch(name, Tail(pat))
              \/ Len(name) > 0 /\ FnMatch(Tail(name), pat)
    ELSE IF Head(pat) = "?"
         THEN Len(name) > 0 /\ FnMatch(Tail(name), Tail(pat))
    ELSE Len(name) > 0 /\ Head(name) = Head(pat) /\ FnMatch(Tail(name), Tail(pat))

(* dict.get(key, default) *)
Get(d, key, default) == IF key \in DOMAIN d THEN d[key] ELSE default

----------------------------------------------------------------------------
(* config.py *)

SepOr == <<" ", "OR", " ">>
SepAnd == <<" ", "AND", " ">>
SepSlash == <<"/">>
SepSpSlash == <<" ", "/", " ">>

(* normalize_license *)
normalize_license(raw, config) ==
    IF Len(raw) = 0 THEN <<"UNKNOWN">>
    ELSE LET trimmed == Strip(raw, Whitespace)
         IN  Get(config.aliases, trimmed, trimmed)

(* mutant: the scan of the tiers starts one entry late *)
classify_license_SkipsFirst(license_str, config) ==
    LET tiers == config.license_tiers
        hits == {i \in 2..Len(tiers) : license_str \in tiers[i].licenses}
    IN  IF hits = {} THEN "unknown"
        ELSE tiers[CHOOSE i \in hits : \A j \in hits : i <= j].tier

(* classify_license: license_tiers is a JSON object, scanned in file order *)
classify_license(license_str, config) ==
    LET tiers == config.license_tiers
        hits == {i \in 1..Len(tiers) : license_str \in tiers[i].licenses}
    IN  IF hits = {} THEN "unknown"
        ELSE tiers[CHOOSE i \in hits : \A j \in hits : i <= j].tier

(* tier_rank.get(tier, 3) *)
tier_rank(tier) ==
    CASE tier = "permissive" -> 0
      [] tier = "weak_copyleft" -> 1
      [] tier = "restrictive" -> 2
      [] OTHER -> 3

RECURSIVE PickBest_KeepsLast(_, _, _, _)
(* mutant: <= for <, so a later part of equal rank replaces the pick *)
PickBest_KeepsLast(parts, config, best_license, best_tier) ==
    IF Len(parts) = 0 THEN <<best_license, best_tier>>
    ELSE LET norm == normalize_license(Head(parts), config)
             tier == classify_license(norm, config)
         IN  IF tier_rank(tier) <= tier_rank(best_tier)
             THEN PickBest_KeepsLast(Tail(parts), config, norm, tier)
             ELSE PickBest_KeepsLast(Tail(parts), config, best_license, best_tier)

RECURSIVE PickBest(_, _, _, _)
(* the OR loops: keep the first part that ranks strictly below the best so far *)
PickBest(parts, config, best_license, best_tier) ==
    IF Len(parts) = 0 THEN <<best_license, best_tier>>
    ELSE LET norm == normalize_license(Head(parts), config)
             tier == classify_license(norm, config)
         IN  IF tier_rank(tier) < tier_rank(best_tier)
             THEN PickBest(Tail(parts), config, norm, tier)
             ELSE PickBest(Tail(parts), config, best_license, best_tier)

RECURSIVE PickWorst_PicksBest(_, _, _, _)
(* mutant: the comparison of the OR loop copied into the AND loop *)
PickWorst_PicksBest(parts, config, worst_license, worst_tier) ==
    IF Len(parts) = 0 THEN <<worst_license, worst_tier>>
    ELSE LET norm == normalize_license(Head(parts), config)
             tier == classify_license(norm, config)
         IN  IF tier_rank(tier) < tier_rank(worst_tier)
             THEN PickWorst_PicksBest(Tail(parts), config, norm, tier)
             ELSE PickWorst_PicksBest(Tail(parts), config, worst_license, worst_tier)

RECURSIVE PickWorst(_, _, _, _)
(* the AND loop: keep the first part that ranks strictly above the worst so far *)
PickWorst(parts, config, worst_license, worst_tier) ==
    IF Len(parts) = 0 THEN <<worst_license, worst_tier>>
    ELSE LET norm == normalize_license(Head(parts), config)
             tier == classify_license(norm, config)
         IN  IF tier_rank(tier) > tier_rank(worst_tier)
             THEN PickWorst(Tail(parts), config, norm, tier)
             ELSE PickWorst(Tail(parts), config, worst_license, worst_tier)

(* [p.strip().strip("()") for p in expr.split(sep)] *)
OperandParts(expr, sep) ==
    LET raw == Split(expr, sep)
    IN  [i \in 1..Len(raw) |-> Strip(Strip(raw[i], Whitespace), Parens)]

(* [p.strip() for p in expr.split(sep)] *)
SlashParts(expr, sep) ==
    LET raw == Split(expr, sep)
    IN  [i \in 1..Len(raw) |-> Strip(raw[i], Whitespace)]

(* mutant: the any_known guard dropped, every slash is split *)
AnyKnown_Always(parts, config) == TRUE

(* any(classify_license(normalize_license(p)) != "unknown" for p in parts) *)
AnyKnown(parts, config) ==
    \E i \in 1..Len(parts) :
        classify_license(normalize_license(parts[i], config), config) /= "unknown"

(* evaluate_spdx_expr: returns <<license, tier>> *)
evaluate_spdx_expr(expr, config) ==
    IF Contains(expr, SepOr)
    THEN PickBest(OperandParts(expr, SepOr), config, expr, "unknown")
    ELSE IF Contains(expr, SepAnd)
    THEN PickWorst(OperandParts(expr, SepAnd), config, expr, "permissive")
    ELSE IF /\ Contains(expr, SepSlash)
            /\ ~Contains(expr, <<" ">>)
            /\ AnyKnown(SlashParts(expr, SepSlash), config)
    THEN PickBest(SlashParts(expr, SepSlash), config, expr, "unknown")
    ELSE IF /\ Contains(expr, SepSpSlash)
            /\ AnyKnown(SlashParts(expr, SepSpSlash), config)
    THEN PickBest(SlashParts(expr, SepSpSlash), config, expr, "unknown")
    ELSE LET norm == normalize_license(expr, config)
         IN  <<norm, classify_license(norm, config)>>

(* mutant: only the exact comparison, the glob match dropped *)
find_override_ExactOnly(pkg_name, config) ==
    LET overrides == config.license_overrides
        hits == {i \in 1..Len(overrides) : pkg_name = overrides[i].pattern}
    IN  IF hits = {} THEN <<>>
        ELSE <<overrides[CHOOSE i \in hits : \A j \in hits : i <= j].override>>

(* find_override: license_overrides is a JSON object, scanned in file order;
   returns <<>> (None) or <<override>> *)
find_override(pkg_name, config) ==
    LET overrides == config.license_overrides
        hits == {i \in 1..Len(overrides) :
                    \/ FnMatch(pkg_name, overrides[i].pattern)
                    \/ pkg_name = overrides[i].pattern}
    IN  IF hits = {} THEN <<>>
        ELSE <<overrides[CHOOSE i \in hits : \A j \in hits : i <= j].override>>

----------------------------------------------------------------------------
(* Inputs: license strings, package names, configurations *)

S(c) == <<c>>

RECURSIVE Join(_, _)
(* sep.join(ops) *)
Join(ops, sep) ==
    IF Len(ops) = 0 THEN <<>>
    ELSE IF Len(ops) = 1 THEN Head(ops)
    ELSE Head(ops) \o sep \o Join(Tail(ops), sep)

ExprAtoms == {S("MIT"), S("LGPL"), S("GPL"), S("Elastic"), S("Foo"), S("ASL")}

Separators == {SepOr, SepAnd, SepSlash, SepSpSlash}

OperandLists == UNION {[1..n -> ExprAtoms] : n \in 2..MaxOperands}

(* expressions of 2..MaxOperands operands under one separator; the same in
   parentheses; two operators mixed; single identifiers, bare and padded *)
Exprs ==
    {Join(ops, sep) : ops \in OperandLists, sep \in Separators}
    \cup {<<"(">> \o Join(ops, sep) \o <<")">> :
            ops \in [1..2 -> ExprAtoms], sep \in {SepOr, SepAnd}}
    \cup {a \o SepAnd \o b \o SepOr \o c : a \in ExprAtoms, b \in ExprAtoms, c \in ExprAtoms}
    \cup {a \o SepSlash \o b \o SepOr \o c : a \in ExprAtoms, b \in ExprAtoms, c \in ExprAtoms}
    \cup ExprAtoms
    \cup {<<" ">> \o a \o <<" ">> : a \in ExprAtoms}

Leftpad == <<"l", "e", "f", "t", "p", "a", "d">>
Lefty == <<"l", "e", "f", "t", "y">>
React == <<"r", "e", "a", "c", "t">>
LeftGlob == <<"l", "e", "f", "t", "*">>
LeftpaQ == <<"l", "e", "f", "t", "p", "a", "?">>

PkgNames == {Leftpad, Lefty, React}

Aliases == (S("ASL") :> S("Apache"))

TiersDefault ==
    << [tier |-> "permissive", licenses |-> {S("MIT"), S("Apache")}],
       [tier |-> "weak_copyleft", licenses |-> {S("LGPL")}],
       [tier |-> "restrictive", licenses |-> {S("GPL")}] >>

(* a configuration that files a license under the custom tier, lists the npm
   "UNLICENSED" marker as restrictive and knows an identifier with a slash *)
TiersCustom ==
    << [tier |-> "permissive", licenses |-> {S("MIT"), S("Apache")}],
       [tier |-> "weak_copyleft", licenses |-> {S("LGPL"), <<"Foo", "/", "Foo">>}],
       [tier |-> "restrictive", licenses |-> {S("GPL"), S("UNLICENSED")}],
       [tier |-> "custom", licenses |-> {S("Elastic")}] >>

OvExact == [pattern |-> Leftpad,
            override |-> [license |-> S("Leftpad-EULA"), tier |-> "permissive", note |-> "reviewed"]]
OvGlob == [pattern |-> LeftGlob,
           override |-> [license |-> S("Left-Family"), tier |-> "restrictive", note |-> ""]]
OvQuestion == [pattern |-> LeftpaQ,
               override |-> [license |-> S("Leftpa-Any"), tier |-> "weak_copyleft", note |-> ""]]
OvCustom == [pattern |-> Leftpad,
             override |-> [license |-> S("Leftpad-EULA"), tier |-> "custom", note |-> "reviewed"]]
OvUnknown == [pattern |-> LeftGlob,
              override |-> [license |-> S("Left-Family"), tier |-> "unknown", note |-> ""]]

SeverityFull ==
    ("permissive" :> "LOW") @@ ("weak_copyleft" :> "MEDIUM") @@ ("restrictive" :> "HIGH")
    @@ ("custom" :> "REVIEW") @@ ("unknown" :> "REVIEW")

SeverityPartial == ("weak_copyleft" :> "MEDIUM") @@ ("restrictive" :> "HIGH")

DevReduction == ("HIGH" :> "MEDIUM") @@ ("MEDIUM" :> "LOW")

Config(tiers, overrides, sev) ==
    [aliases |-> Aliases, license_tiers |-> tiers, license_overrides |-> overrides,
     severity_map |-> sev, dev_severity_reduction |-> DevReduction]

----------------------------------------------------------------------------
(* The scan is idle while a pure call is checked, and the reverse *)

EmptyResults ==
    [permissive |-> <<>>, weak_copyleft |-> <<>>, restrictive |-> <<>>,
     custom |-> <<>>, unknown |-> <<>>]

NoCall == [fn |-> "none", arg |-> <<>>]

NoProcess == [stdout |-> <<>>, exit |-> <<>>, traceback |-> FALSE]

NoRepo == [shallow |-> FALSE, log |-> <<>>]

OrgIdle ==
    /\ tracker = <<>>
    /\ disk = <<>>
    /\ org = <<>>

MainIdle ==
    /\ project = <<>>
    /\ pm = <<>>
    /\ proc = NoProcess
    /\ blame = <<>>
    /\ repo = NoRepo
    /\ tmpdir = "none"
    /\ OrgIdle

ScanIdle ==
    /\ packages = <<>>
    /\ registry = <<>>
    /\ ecosystem = "npm"
    /\ hasGit = FALSE
    /\ pc = "idle"
    /\ idx = 0
    /\ results = EmptyResults
    /\ unknown_pkgs = <<>>
    /\ lookups = <<>>
    /\ output = <<>>
    /\ prev = <<>>

scanVars == <<packages, registry, ecosystem, hasGit, pc, idx, results,
              unknown_pkgs, lookups, output, prev>>

----------------------------------------------------------------------------
(* SpecEval: evaluate_spdx_expr and find_override applied to drawn inputs *)

EvalConfigs == {Config(t, <<>>, SeverityFull) : t \in {TiersDefault, TiersCustom}}

OverrideTables ==
    { <<OvExact, OvGlob>>, <<OvGlob, OvExact>>, <<OvQuestion, OvExact>>,
      <<OvExact>>, <<OvGlob>>, <<>> }

OverrideConfigs == {Config(TiersDefault, o, SeverityFull) : o \in OverrideTables}

InitEval ==
    /\ \/ /\ call \in {[fn |-> "evaluate_spdx_expr", arg |-> e] : e \in Exprs}
          /\ cfg \in EvalConfigs
       \/ /\ call \in {[fn |-> "find_override", arg |-> n] : n \in PkgNames}
          /\ cfg \in OverrideConfigs
    /\ ret = <<>>
    /\ ScanIdle
    /\ MainIdle

Evaluate ==
    /\ call.fn = "evaluate_spdx_expr"
    /\ ret = <<>>
    /\ ret' = <<evaluate_spdx_expr(call.arg, cfg)>>
    /\ UNCHANGED <<mainVars, call, cfg, scanVars>>

FindOverride ==
    /\ call.fn = "find_override"
    /\ ret = <<>>
    /\ ret' = <<find_override(call.arg, cfg)>>
    /\ UNCHANGED <<mainVars, call, cfg, scanVars>>

NextEval == Evaluate \/ FindOverride

SpecEval == InitEval /\ [][NextEval]_vars

----------------------------------------------------------------------------
(* license_check.py detect_package_manager.  A directory is the set of its
   marker files and what reading its package.json gives *)

MaxMarkers == 2

(* what a Python call gives back: a value, or the exception it raises *)
Returned(v) == [raised |-> "", value |-> v]
Raised(e) == [raised |-> e, value |-> <<>>]

GradleBuildFiles == {"build.gradle.kts", "build.gradle", "settings.gradle.kts"}

(* Package.resolved stands for every location find_package_resolved tries,
   App.csproj and App.sln for the two globs *)
MarkerFiles ==
    {"foundry.toml", "pnpm-lock.yaml", "yarn.lock", "package-lock.json",
     "Cargo.lock", "Cargo.toml", "gradle/libs.versions.toml", "Package.resolved",
     "pubspec.lock", "pubspec.yaml", "go.sum", "go.mod",
     "Directory.Packages.props", "App.csproj", "App.sln",
     "poetry.lock", "uv.lock", "Pipfile.lock", "requirements.txt"}
        \cup GradleBuildFiles

(* package.json: absent; unreadable; not JSON; JSON that is not an object;
   an object without the packageManager field, with a string or with a number *)
PkgJson(exists, read, object, field) ==
    [exists |-> exists, read |-> read, object |-> object, packageManager |-> field]

StrField(text) == <<[str |-> TRUE, text |-> text]>>
NumField == <<[str |-> FALSE, text |-> <<"8">>]>>

NoPkgJson == PkgJson(FALSE, "ok", TRUE, <<>>)
BarePkgJson == PkgJson(TRUE, "ok", TRUE, <<>>)

PkgJsons ==
    { NoPkgJson,
      BarePkgJson,
      PkgJson(TRUE, "OSError", TRUE, <<>>),
      PkgJson(TRUE, "JSONDecodeError", TRUE, <<>>),
      PkgJson(TRUE, "ok", FALSE, <<>>),
      PkgJson(TRUE, "ok", TRUE, StrField(<<"pnpm", "@", "8">>)),
      PkgJson(TRUE, "ok", TRUE, StrField(<<"yarn", "@", "1">>)),
      PkgJson(TRUE, "ok", TRUE, StrField(<<"npm", "@", "9">>)),
      PkgJson(TRUE, "ok", TRUE, StrField(<<"bun", "@", "1">>)),
      PkgJson(TRUE, "ok", TRUE, StrField(<<>>)),
      PkgJson(TRUE, "ok", TRUE, NumField) }

Directory(files, pkg_json) == [files |-> files, pkg_json |-> pkg_json]

(* lines 56-69: the packageManager field of package.json; <<>> when the
   block falls through *)
PackageManagerField(pkg_json) ==
    IF ~pkg_json.exists THEN Returned(<<>>)
    ELSE IF pkg_json.read /= "ok" THEN Returned(<<>>)
    ELSE IF ~pkg_json.object THEN Raised("AttributeError")
    ELSE LET f == pkg_json.packageManager
             field == IF f = <<>> THEN [str |-> TRUE, text |-> <<>>] ELSE f[1]
         IN  IF ~field.str THEN Raised("AttributeError")
             ELSE IF StartsWith(field.text, S("pnpm")) THEN Returned(<<"pnpm">>)
             ELSE IF StartsWith(field.text, S("yarn")) THEN Returned(<<"yarn">>)
             ELSE IF StartsWith(field.text, S("npm")) THEN Returned(<<"npm">>)
             ELSE Returned(<<>>)

(* lines 71-109: the ecosystems after JS/TS *)
DetectOther(files) ==
    IF "Cargo.lock" \in files \/ "Cargo.toml" \in files THEN <<"cargo">>
    ELSE IF "gradle/libs.versions.toml" \in files THEN <<"gradle">>
    ELSE IF files \cap GradleBuildFiles /= {} THEN <<"gradle">>
    ELSE IF "Package.resolved" \in files THEN <<"swift">>
    ELSE IF "pubspec.lock" \in files \/ "pubspec.yaml" \in files THEN <<"dart">>
    ELSE IF "go.sum" \in files \/ "go.mod" \in files THEN <<"go">>
    ELSE IF "Directory.Packages.props" \in files THEN <<"csharp">>
    ELSE IF "App.csproj" \in files \/ "App.sln" \in files THEN <<"csharp">>
    ELSE IF "poetry.lock" \in files THEN <<"poetry">>
    ELSE IF "uv.lock" \in files THEN <<"uv">>
    ELSE IF "Pipfile.lock" \in files THEN <<"pipenv">>
    ELSE IF "requirements.txt" \in files THEN <<"pip">>
    ELSE <<>>

(* the packageManager field read before the lockfiles are looked at *)
detect_package_manager_FieldFirst(dir) ==
    LET field == PackageManagerField(dir.pkg_json)
    IN  IF "foundry.toml" \in dir.files THEN Returned(<<"solidity">>)
        ELSE IF field.raised /= "" \/ field.value /= <<>> THEN field
        ELSE IF "pnpm-lock.yaml" \in dir.files THEN Returned(<<"pnpm">>)
        ELSE IF "yarn.lock" \in dir.files THEN Returned(<<"yarn">>)
        ELSE IF "package-lock.json" \in dir.files THEN Returned(<<"npm">>)
        ELSE Returned(DetectOther(dir.files))

detect_package_manager(dir) ==
    IF "foundry.toml" \in dir.files THEN Returned(<<"solidity">>)
    ELSE IF "pnpm-lock.yaml" \in dir.files THEN Returned(<<"pnpm">>)
    ELSE IF "yarn.lock" \in dir.files THEN Returned(<<"yarn">>)
    ELSE IF "package-lock.json" \in dir.files THEN Returned(<<"npm">>)
    ELSE LET field == PackageManagerField(dir.pkg_json)
         IN  IF field.raised /= "" \/ field.value /= <<>> THEN field
             ELSE Returned(DetectOther(dir.files))

----------------------------------------------------------------------------
(* SpecDetect: detect_package_manager applied to drawn directories *)

RECURSIVE FilesUpTo(_)
FilesUpTo(n) ==
    IF n = 0 THEN {{}}
    ELSE LET fewer == FilesUpTo(n - 1)
         IN  fewer \cup {s \cup {f} : s \in fewer, f \in MarkerFiles}

FileSets == FilesUpTo(MaxMarkers)

Directories == {Directory(f, j) : f \in FileSets, j \in PkgJsons}

InitDetect ==
    /\ call \in {[fn |-> "detect_package_manager", arg |-> d] : d \in Directories}
    /\ cfg = Config(TiersDefault, <<>>, SeverityFull)
    /\ ret = <<>>
    /\ ScanIdle
    /\ MainIdle

Detect ==
    /\ call.fn = "detect_package_manager"
    /\ ret = <<>>
    /\ ret' = <<detect_package_manager(call.arg)>>
    /\ UNCHANGED <<mainVars, call, cfg, scanVars>>

NextDetect == Detect

SpecDetect == InitDetect /\ [][NextDetect]_vars

----------------------------------------------------------------------------
(* The registry lookup clients: ecosystems/js.py lookup_npm_license,
   ecosystems/python.py lookup_pypi_license, ecosystems/rust.py
   lookup_crates_io_license, github_api.py lookup_github_license.
   A response is how urlopen / resp.read / json.loads ended and, when they
   succeeded, the decoded JSON value *)

(* a JSON value: its type, its text (strings and numbers), its members
   (objects, a function on the keys present) and its items (lists) *)
JNull == [t |-> "null", s |-> <<>>, f |-> <<>>, items |-> <<>>]
JStr(text) == [t |-> "str", s |-> text, f |-> <<>>, items |-> <<>>]
JNum == [t |-> "num", s |-> <<"5">>, f |-> <<>>, items |-> <<>>]
JList(items) == [t |-> "list", s |-> <<>>, f |-> <<>>, items |-> items]
JObj(members) == [t |-> "obj", s |-> <<>>, f |-> members, items |-> <<>>]

(* d.get(key, default) on a dict *)
JGet(j, key, default) == IF key \in DOMAIN j.f THEN j.f[key] ELSE default

(* Python truth value *)
Truthy(j) ==
    CASE j.t = "null" -> FALSE
      [] j.t = "str" -> j.s /= <<>>
      [] j.t = "num" -> TRUE
      [] j.t = "list" -> j.items /= <<>>
      [] OTHER -> DOMAIN j.f /= {}

Response(outcome, body) == [outcome |-> outcome, body |-> body]

(* URLError covers HTTPError (404); a timeout is an OSError *)
CaughtByLookups == {"URLError", "HTTPError", "timeout", "JSONDecodeError"}

LookupFailures == CaughtByLookups \cup {"UnicodeDecodeError"}

(* the except clause of the four clients, then `return None`; anything else
   raised inside the try block leaves the function *)
AfterTry(resp, result) ==
    IF resp.outcome \in CaughtByLookups THEN Returned(<<>>)
    ELSE IF resp.outcome /= "ok" THEN Raised(resp.outcome)
    ELSE result

lookup_github_license(resp) ==
    LET data == resp.body
        license == JGet(data, "license", JObj(<<>>))
        spdx == JGet(license, "spdx_id", JStr(<<>>))
    IN  AfterTry(resp,
            IF data.t /= "obj" THEN Raised("AttributeError")
            ELSE IF license.t /= "obj" THEN Raised("AttributeError")
            ELSE IF Truthy(spdx) /\ spdx.s /= S("NOASSERTION")
                 THEN Returned(<<spdx.s>>)
                 ELSE Returned(<<>>))

lookup_npm_license(resp) ==
    LET data == resp.body
        field == JGet(data, "license", JStr(<<>>))
        lic == IF field.t = "obj" THEN JGet(field, "type", JStr(<<>>)) ELSE field
    IN  AfterTry(resp,
            IF data.t /= "obj" THEN Raised("AttributeError")
            ELSE IF /\ lic.t = "str"
                    /\ lic.s /= <<>>
                    /\ lic.s \notin {S("UNLICENSED"), S("UNKNOWN"), S("Unknown")}
                 THEN Returned(<<lic.s>>)
                 ELSE Returned(<<>>))

lookup_crates_io_license(resp) ==
    LET data == resp.body
        version == JGet(data, "version", JObj(<<>>))
        lic == JGet(version, "license", JStr(<<>>))
    IN  AfterTry(resp,
            IF data.t /= "obj" THEN Raised("AttributeError")
            ELSE IF version.t /= "obj" THEN Raised("AttributeError")
            ELSE IF lic.t = "str" /\ lic.s /= <<>> /\ lic.s \notin {S("UNKNOWN"), S("Unknown")}
                 THEN Returned(<<lic.s>>)
                 ELSE Returned(<<>>))

OsiPrefix == <<"License", " :: ", "OSI Approved", " :: ">>

(* `for classifier in classifiers: if classifier.startswith(...): return ...`;
   <<>> when the loop ends without a return *)
RECURSIVE ClassifierLoop(_)
ClassifierLoop(items) ==
    IF items = <<>> THEN Returned(<<>>)
    ELSE IF Head(items).t /= "str" THEN Raised("AttributeError")
    ELSE IF StartsWith(Head(items).s, OsiPrefix)
         THEN LET parts == Split(Head(items).s, <<" :: ">>)
              IN  Returned(<<parts[Len(parts)]>>)
         ELSE ClassifierLoop(Tail(items))

lookup_pypi_license(resp) ==
    LET data == resp.body
        info == JGet(data, "info", JObj(<<>>))
        classifiers == JGet(info, "classifiers", JList(<<>>))
        lic == JGet(info, "license", JStr(<<>>))
        found == ClassifierLoop(classifiers.items)
    IN  AfterTry(resp,
            IF data.t /= "obj" THEN Raised("AttributeError")
            ELSE IF info.t /= "obj" THEN Raised("AttributeError")
            ELSE IF classifiers.t \in {"null", "num"} THEN Raised("TypeError")
            ELSE IF found /= Returned(<<>>) THEN found
            ELSE IF lic.t = "str" /\ Upper(lic.s) \notin {S("UNKNOWN"), <<>>}
                 THEN Returned(<<lic.s>>)
                 ELSE Returned(<<>>))

----------------------------------------------------------------------------
(* SpecLookup: the four clients applied to drawn responses *)

Leaves ==
    { JNull, JNum, JList(<<>>), JStr(<<>>), JStr(S("MIT")), JStr(S("UNKNOWN")),
      JStr(S("UNLICENSED")), JStr(S("NOASSERTION")) }

NotObjects == {JNull, JNum, JList(<<>>), JStr(S("Not Found"))}

(* the bodies a client reading body[key][sub] can tell apart *)
Bodies(key, sub) ==
    NotObjects
        \cup {JObj(<<>>), JObj(key :> JObj(<<>>))}
        \cup {JObj(key :> leaf) : leaf \in Leaves}
        \cup {JObj(key :> JObj(sub :> leaf)) : leaf \in Leaves}

OsiMit == JStr(OsiPrefix \o <<"MIT License">>)
TopicClassifier == JStr(<<"Programming Language", " :: ", "Python">>)

ClassifierBodies ==
    { JObj("info" :> JObj("classifiers" :> c)) :
        c \in { JNull, JList(<<OsiMit>>), JList(<<TopicClassifier, OsiMit>>),
                JList(<<JNum, OsiMit>>), JList(<<TopicClassifier>>) } }
        \cup { JObj("info" :> JObj(("classifiers" :> JList(<<TopicClassifier>>))
                                      @@ ("license" :> JStr(S("MIT"))))) }

Responses(bodies) ==
    {Response(o, JNull) : o \in LookupFailures} \cup {Response("ok", b) : b \in bodies}

LookupCall(fn, bodies) == {[fn |-> fn, arg |-> r] : r \in Responses(bodies)}

InitLookup ==
    /\ call \in LookupCall("lookup_npm_license", Bodies("license", "type"))
            \cup LookupCall("lookup_github_license", Bodies("license", "spdx_id"))
            \cup LookupCall("lookup_crates_io_license", Bodies("version", "license"))
            \cup LookupCall("lookup_pypi_license",
                            Bodies("info", "license") \cup ClassifierBodies)
    /\ cfg = Config(TiersDefault, <<>>, SeverityFull)
    /\ ret = <<>>
    /\ ScanIdle
    /\ MainIdle

LookupNpm ==
    /\ call.fn = "lookup_npm_license"
    /\ ret = <<>>
    /\ ret' = <<lookup_npm_license(call.arg)>>
    /\ UNCHANGED <<mainVars, call, cfg, scanVars>>

LookupPypi ==
    /\ call.fn = "lookup_pypi_license"
    /\ ret = <<>>
    /\ ret' = <<lookup_pypi_license(call.arg)>>
    /\ UNCHANGED <<mainVars, call, cfg, scanVars>>

LookupCratesIo ==
    /\ call.fn = "lookup_crates_io_license"
    /\ ret = <<>>
    /\ ret' = <<lookup_crates_io_license(call.arg)>>
    /\ UNCHANGED <<mainVars, call, cfg, scanVars>>

LookupGithub ==
    /\ call.fn = "lookup_github_license"
    /\ ret = <<>>
    /\ ret' = <<lookup_github_license(call.arg)>>
    /\ UNCHANGED <<mainVars, call, cfg, scanVars>>

NextLookup == LookupNpm \/ LookupPypi \/ LookupCratesIo \/ LookupGithub

SpecLookup == InitLookup /\ [][NextLookup]_vars

----------------------------------------------------------------------------
(* classify.py: classify_packages *)

Buckets == {"permissive", "weak_copyleft", "restrictive", "custom", "unknown"}

SeeLicenseIn == <<"SEE", " ", "LICENSE", " ", "IN">>

(* mutant: the reduction applied a second time to its own result *)
ReduceIfDev_Twice(severity, is_dev, config) ==
    LET once == Get(config.dev_severity_reduction, severity, severity)
    IN  IF is_dev THEN Get(config.dev_severity_reduction, once, once) ELSE severity

(* if pkg.get("is_dev"): severity = dev_reduction.get(severity, severity) *)
ReduceIfDev(severity, is_dev, config) ==
    IF is_dev THEN Get(config.dev_severity_reduction, severity, severity) ELSE severity

(* the entry built on the override path; an absent key is <<>> *)
OverrideEntry(pkg, override, config) ==
    [name |-> pkg.name,
     version |-> pkg.version,
     license |-> override.license,
     raw_license |-> pkg.license,
     tier |-> override.tier,
     severity |-> ReduceIfDev(Get(config.severity_map, override.tier, "REVIEW"),
                              pkg.is_dev, config),
     is_dev |-> pkg.is_dev,
     note |-> <<override.note>>,
     resolved_via |-> <<>>,
     introduced_by |-> "absent"]

(* the sentinel chain of the first pass, then evaluate_spdx_expr *)
FirstPassLicense(raw_license, config) ==
    IF StartsWith(Upper(raw_license), SeeLicenseIn) THEN <<raw_license, "unknown">>
    ELSE IF raw_license = S("UNLICENSED") THEN <<S("UNLICENSED"), "unknown">>
    ELSE IF raw_license \in {S("Unknown"), S("UNKNOWN"), <<>>} THEN <<S("UNKNOWN"), "unknown">>
    ELSE evaluate_spdx_expr(raw_license, config)

(* the entry built by the first pass for a record without override *)
FirstPassEntry(pkg, config) ==
    LET lt == FirstPassLicense(pkg.license, config)
    IN  [name |-> pkg.name,
         version |-> pkg.version,
         license |-> lt[1],
         raw_license |-> pkg.license,
         tier |-> lt[2],
         severity |-> ReduceIfDev(Get(config.severity_map, lt[2], "LOW"), pkg.is_dev, config),
         is_dev |-> pkg.is_dev,
         note |-> <<>>,
         resolved_via |-> <<>>,
         introduced_by |-> "absent"]

(* the registry client and tag the second pass picks for the ecosystem *)
source_tag(eco) ==
    IF eco = "cargo" THEN "crates.io" ELSE IF eco = "pypi" THEN "pypi" ELSE "npm"

(* the entry of an unknown record once the registry returned reg_license *)
ResolvedEntry(entry, eco, reg_license, config) ==
    LET lt == evaluate_spdx_expr(reg_license, config)
    IN  [entry EXCEPT
            !.license = lt[1],
            !.raw_license = entry.raw_license \o <<" -> ", source_tag(eco), ":">> \o reg_license,
            !.tier = lt[2],
            !.severity = ReduceIfDev(Get(config.severity_map, lt[2], "LOW"), entry.is_dev, config),
            !.resolved_via = <<source_tag(eco), "_registry">>]

(* mutant: the second pass run for every ecosystem *)
Resolving_AnyEcosystem == unknown_pkgs /= <<>>

(* the second pass runs: resolve_unknowns (default True) and unknown_pkgs and
   ecosystem not in ("github", "maven", "nuget") *)
Resolving ==
    /\ unknown_pkgs /= <<>>
    /\ ecosystem \notin {"github", "maven", "nuget"}

(* results[tier].append(entry); a tier that is no key of results raises KeyError *)
AppendTo(res, tier, entry) == [res EXCEPT ![tier] = Append(@, entry)]

(* one iteration of the first-pass loop *)
FirstPassStep ==
    /\ pc = "first"
    /\ idx <= Len(packages)
    /\ LET pkg == packages[idx]
           override == find_override(pkg.name, cfg)
           entry == IF override /= <<>> THEN OverrideEntry(pkg, override[1], cfg)
                    ELSE FirstPassEntry(pkg, cfg)
           after == IF idx = Len(packages) THEN "second" ELSE "first"
       IN  IF override = <<>> /\ entry.tier = "unknown"
           THEN /\ unknown_pkgs' = Append(unknown_pkgs, entry)
                /\ idx' = IF idx = Len(packages) THEN 1 ELSE idx + 1
                /\ pc' = after
                /\ UNCHANGED results
           ELSE IF entry.tier \in Buckets
           THEN /\ results' = AppendTo(results, entry.tier, entry)
                /\ idx' = IF idx = Len(packages) THEN 1 ELSE idx + 1
                /\ pc' = after
                /\ UNCHANGED unknown_pkgs
           ELSE /\ pc' = "crashed"
                /\ UNCHANGED <<results, unknown_pkgs, idx>>
    /\ UNCHANGED <<mainVars, call, ret, cfg, packages, registry, ecosystem, hasGit, lookups, output, prev>>

(* mutant: the lookup made for the record at the same index of the input list
   instead of the unknown entry at hand *)
SecondPassStep_WrongRecord ==
    /\ pc = "second"
    /\ Resolving
    /\ idx <= Len(unknown_pkgs)
    /\ LET entry == unknown_pkgs[idx]
           reg_license == registry[packages[idx].name]
           resolved == ResolvedEntry(entry, ecosystem, reg_license[1], cfg)
           after == IF idx = Len(unknown_pkgs) THEN "classified" ELSE "second"
       IN  /\ lookups' = Append(lookups, packages[idx].name)
           /\ IF reg_license = <<>>
              THEN /\ results' = AppendTo(results, "unknown", entry)
                   /\ idx' = idx + 1
                   /\ pc' = after
              ELSE IF resolved.tier \in Buckets
              THEN /\ results' = AppendTo(results, resolved.tier, resolved)
                   /\ idx' = idx + 1
                   /\ pc' = after
              ELSE /\ pc' = "crashed"
                   /\ UNCHANGED <<results, idx>>
    /\ UNCHANGED <<mainVars, call, ret, cfg, packages, registry, ecosystem, hasGit, unknown_pkgs,
                   output, prev>>

(* one iteration of the second-pass loop: one registry lookup *)
SecondPassStep ==
    /\ pc = "second"
    /\ Resolving
    /\ idx <= Len(unknown_pkgs)
    /\ LET entry == unknown_pkgs[idx]
           reg_license == registry[entry.name]
           resolved == ResolvedEntry(entry, ecosystem, reg_license[1], cfg)
           after == IF idx = Len(unknown_pkgs) THEN "classified" ELSE "second"
       IN  /\ lookups' = Append(lookups, entry.name)
           /\ IF reg_license = <<>>
              THEN /\ results' = AppendTo(results, "unknown", entry)
                   /\ idx' = idx + 1
                   /\ pc' = after
              ELSE IF resolved.tier \in Buckets
              THEN /\ results' = AppendTo(results, resolved.tier, resolved)
                   /\ idx' = idx + 1
                   /\ pc' = after
              ELSE /\ pc' = "crashed"
                   /\ UNCHANGED <<results, idx>>
    /\ UNCHANGED <<mainVars, call, ret, cfg, packages, registry, ecosystem, hasGit, unknown_pkgs,
                   output, prev>>

(* mutant: the else branch without its loop *)
SkipSecondPass_DropsUnknown ==
    /\ pc = "second"
    /\ ~Resolving
    /\ pc' = "classified"
    /\ UNCHANGED <<mainVars, call, ret, cfg, packages, registry, ecosystem, hasGit, idx, results,
                   unknown_pkgs, lookups, output, prev>>

(* the else branch: every unknown entry goes to the unknown bucket unresolved *)
SkipSecondPass ==
    /\ pc = "second"
    /\ ~Resolving
    /\ results' = [results EXCEPT !.unknown = @ \o unknown_pkgs]
    /\ pc' = "classified"
    /\ UNCHANGED <<mainVars, call, ret, cfg, packages, registry, ecosystem, hasGit, idx,
                   unknown_pkgs, lookups, output, prev>>

----------------------------------------------------------------------------
(* blame.py trace_blame_for_violations, as scan_project sees it: the same
   list comes back, each entry with introduced_by set to None or to a blame
   record *)

BlameOutcomes(violations) == [1..Len(violations) -> {"None", "found"}]

trace_blame_for_violations(violations, outcome) ==
    [i \in 1..Len(violations) |-> [violations[i] EXCEPT !.introduced_by = outcome[i]]]

----------------------------------------------------------------------------
(* license_check.py: scan_project after extraction, and a later run of the
   scanner on the same project *)

(* the summary dict *)
Summary(classified, pkgs) ==
    [permissive |-> Len(classified.permissive),
     weak_copyleft |-> Len(classified.weak_copyleft),
     restrictive |-> Len(classified.restrictive),
     custom |-> Len(classified.custom),
     unknown |-> Len(classified.unknown),
     total |-> Len(pkgs)]

(* the output dict of a scan that classified its packages *)
ScanOutput(classified, pkgs) ==
    [error |-> <<>>,
     summary |-> Summary(classified, pkgs),
     has_violations |-> Len(classified.restrictive) > 0,
     violations |-> [high |-> classified.restrictive, medium |-> classified.weak_copyleft],
     custom |-> classified.custom,
     unknown |-> classified.unknown]

(* `if not packages: return {"error": ...}` *)
ReturnNoPackages ==
    /\ pc = "extracted"
    /\ packages = <<>>
    /\ output' = <<[error |-> <<"No packages found.">>]>>
    /\ pc' = "returned"
    /\ UNCHANGED <<mainVars, call, ret, cfg, packages, registry, ecosystem, hasGit, idx, results,
                   unknown_pkgs, lookups, prev>>

(* packages found: classify_packages is entered *)
StartClassify ==
    /\ pc = "extracted"
    /\ packages /= <<>>
    /\ pc' = "first"
    /\ idx' = 1
    /\ UNCHANGED <<mainVars, call, ret, cfg, packages, registry, ecosystem, hasGit, results,
                   unknown_pkgs, lookups, output, prev>>

(* blame enrichment of the restrictive bucket when there is one and the
   project is a git checkout, then the output dict *)
FinishScan ==
    /\ pc = "classified"
    /\ \E git \in BOOLEAN :
         /\ hasGit' = git
         /\ IF results.restrictive /= <<>> /\ git
            THEN \E outcome \in BlameOutcomes(results.restrictive) :
                   results' = [results EXCEPT !.restrictive =
                                  trace_blame_for_violations(@, outcome)]
            ELSE UNCHANGED results
    /\ output' = <<ScanOutput(results', packages)>>
    /\ pc' = "returned"
    /\ UNCHANGED <<mainVars, call, ret, cfg, packages, registry, ecosystem, idx, unknown_pkgs,
                   lookups, prev>>

(* the scanner is run again on the same project with the same configuration *)
Rerun ==
    /\ pc = "returned"
    /\ prev = <<>>
    /\ output[1].error = <<>>
    /\ prev' = <<[b \in Buckets |->
                   [i \in 1..Len(results[b]) |->
                       <<results[b][i].name, results[b][i].license, results[b][i].tier>>]]>>
    /\ results' = EmptyResults
    /\ unknown_pkgs' = <<>>
    /\ lookups' = <<>>
    /\ output' = <<>>
    /\ hasGit' = FALSE
    /\ idx' = 0
    /\ pc' = "extracted"
    /\ UNCHANGED <<mainVars, call, ret, cfg, packages, registry, ecosystem>>

----------------------------------------------------------------------------
(* Spec: one project scanned, from the extractor's records to the output *)

Record(name, license, is_dev) ==
    [name |-> name, version |-> "1.0", license |-> license, is_dev |-> is_dev]

(* a plain name with a license of each kind and each no-license marker, a
   name the overrides match; dev-only and not *)
Records ==
    { Record(React, S("MIT"), FALSE),
      Record(React, S("GPL"), FALSE),
      Record(React, S("GPL"), TRUE),
      Record(React, S("Foo"), FALSE),
      Record(React, S("Foo"), TRUE),
      Record(React, S("UNLICENSED"), FALSE),
      Record(React, <<>>, FALSE),
      Record(React, <<"see", " ", "license", " ", "in", " ", "EULA">>, FALSE),
      Record(Leftpad, S("GPL"), FALSE),
      Record(Leftpad, S("Foo"), TRUE) }

PackageLists == UNION {[1..n -> Records] : n \in 0..MaxPkgs}

OvForeign == [pattern |-> Leftpad,
              override |-> [license |-> S("Leftpad-EULA"), tier |-> "proprietary", note |-> ""]]

ScanConfigs ==
    { Config(TiersDefault, <<OvCustom>>, SeverityFull),
      Config(TiersCustom, <<OvGlob, OvExact>>, SeverityPartial),
      Config(TiersDefault, <<OvUnknown>>, SeverityFull),
      Config(TiersCustom, <<>>, SeverityFull),
      Config(TiersDefault, <<OvForeign>>, SeverityFull) }

RegistryGpl == (Leftpad :> <<S("MIT")>>) @@ (React :> <<S("GPL")>>) @@ (Lefty :> <<>>)
RegistrySilent == (Leftpad :> <<>>) @@ (React :> <<>>) @@ (Lefty :> <<>>)
RegistryOdd == (Leftpad :> <<S("LGPL")>>) @@ (React :> <<S("Bar")>>) @@ (Lefty :> <<>>)

(* the ecosystem of the project and what its registry answers *)
Environments ==
    { <<"npm", RegistryGpl>>, <<"pypi", RegistrySilent>>, <<"cargo", RegistryOdd>>,
      <<"github", RegistryGpl>> }

Init ==
    /\ call = NoCall
    /\ ret = <<>>
    /\ cfg \in ScanConfigs
    /\ packages \in PackageLists
    /\ \E env \in Environments : ecosystem = env[1] /\ registry = env[2]
    /\ hasGit = FALSE
    /\ pc = "extracted"
    /\ idx = 0
    /\ results = EmptyResults
    /\ unknown_pkgs = <<>>
    /\ lookups = <<>>
    /\ output = <<>>
    /\ prev = <<>>
    /\ MainIdle

Next ==
    \/ ReturnNoPackages
    \/ StartClassify
    \/ FirstPassStep
    \/ SecondPassStep
    \/ SkipSecondPass
    \/ FinishScan
    \/ Rerun

Spec == Init /\ [][Next]_vars

----------------------------------------------------------------------------
(* blame.py.  The project of the blame tracer: the package App depends on
   Middle, declared in its manifest, and Middle pulls in Leaf, directly or
   through Inner; Leaf may be declared in the manifest as well *)

MaxViolations == 2

App == <<"a", "p", "p">>
Middle == <<"m", "i", "d", "d", "l", "e">>
Inner == <<"i", "n", "n", "e", "r">>
Leaf == <<"l", "e", "a", "f">>

ChainPms == {"pnpm", "npm", "yarn", "cargo"}

_get_manifest_pathspecs(p) ==
    IF p \in {"pnpm", "npm", "yarn"} THEN <<":(glob)**/package.json">>
    ELSE IF p = "cargo" THEN <<":(glob)**/Cargo.toml">>
    ELSE IF p \in {"poetry", "uv"} THEN <<"pyproject.toml">>
    ELSE IF p = "pipenv" THEN <<"Pipfile">>
    ELSE IF p = "pip" THEN <<"requirements.txt">>
    ELSE <<>>

(* the name is declared in a manifest of the project *)
_find_direct_dep_in_manifest(proj, pkg_name) == pkg_name \in proj.declared

(* the dependency path from the manifest down to the package *)
PathTo(proj, pkg_name) == IF pkg_name = Leaf THEN proj.leaf_path ELSE <<pkg_name>>

RECURSIVE Reversed(_)
Reversed(s) == IF s = <<>> THEN <<>> ELSE Append(Reversed(Tail(s)), Head(s))

RECURSIVE JoinHash(_)
JoinHash(names) ==
    IF Len(names) = 1 THEN names[1]
    ELSE names[1] \o <<"#">> \o JoinHash(Tail(names))

Chain(direct, chain) == [direct |-> direct, chain |-> chain]

(* `pnpm why`: the names matched line by line, the project first *)
PnpmWhyNames(proj, pkg_name) == <<proj.root>> \o PathTo(proj, pkg_name)

(* `cargo tree --invert -p pkg`: the package first, its dependents below it,
   the workspace member last *)
CargoTreeNames(proj, pkg_name) == Reversed(<<proj.root>> \o PathTo(proj, pkg_name))

(* `yarn why`: "<parents joined by #>" depends on it *)
YarnWhyParent(proj, pkg_name) ==
    LET path == PathTo(proj, pkg_name)
    IN  IF Len(path) < 2 THEN <<>> ELSE <<JoinHash(SubSeq(path, 1, Len(path) - 1))>>

(* lines 182-234: lockfile search (pnpm), nested node_modules (npm, yarn) *)
JsFallback(proj, p, pkg_name) ==
    LET path == PathTo(proj, pkg_name)
    IN  IF p = "pnpm" /\ proj.lockfile
        THEN IF Len(path) >= 2
             THEN <<Chain(path[Len(path) - 1], <<path[Len(path) - 1], pkg_name>>)>>
             ELSE <<>>
        ELSE IF path[1] \in proj.declared /\ path[1] /= pkg_name /\ proj.nested
             THEN <<Chain(path[1], <<path[1], pkg_name>>)>>
             ELSE <<>>

_trace_dep_chain_via_pm(proj, p, pkg_name) ==
    LET fallthrough == Chain(pkg_name, <<pkg_name>>)
        fallback == JsFallback(proj, p, pkg_name)
        js_fallback == IF fallback /= <<>> THEN fallback[1] ELSE fallthrough
    IN  IF p = "pnpm" THEN
            LET chain_names == PnpmWhyNames(proj, pkg_name)
                deps == SelectSeq(Tail(chain_names), LAMBDA n : n /= pkg_name)
            IN  IF proj.tool_ok /\ deps /= <<>> THEN Chain(deps[1], Append(deps, pkg_name))
                ELSE IF proj.tool_ok THEN Chain(pkg_name, <<pkg_name>>)
                ELSE js_fallback
        ELSE IF p = "npm" THEN
            IF proj.tool_ok
            THEN Chain(PathTo(proj, pkg_name)[1], PathTo(proj, pkg_name))
            ELSE js_fallback
        ELSE IF p = "yarn" THEN
            LET parent == YarnWhyParent(proj, pkg_name)
            IN  IF proj.tool_ok /\ parent /= <<>>
                THEN Chain(parent[1], <<parent[1], pkg_name>>)
                ELSE js_fallback
        ELSE IF p = "cargo" THEN
            LET names == CargoTreeNames(proj, pkg_name)
            IN  IF proj.tool_ok /\ Len(names) > 1
                THEN Chain(names[Len(names)], Reversed(names))
                ELSE fallthrough
        ELSE fallthrough

FetchUnshallow == "git fetch --unshallow"
LogPickaxe == "git log -S"

(* the commit that introduced a name, and the oldest commit of a truncated
   history, which adds the manifests as they were at the cut *)
IntroCommit == "abc1234"
GraftCommit == "feed123"

(* lines 291-300: `git fetch --unshallow` when .git/shallow exists; its
   failure is reported when verbose and otherwise ignored *)
Unshallowed(r, proj) ==
    IF r.shallow
    THEN [shallow |-> ~proj.unshallow_ok, log |-> Append(r.log, FetchUnshallow)]
    ELSE r

(* git log -S <name> on the manifests: the oldest commit of the history at
   hand that changes the count of the name, or nothing *)
_git_pickaxe(proj, shallow, dep_name) ==
    IF dep_name \in proj.history
    THEN <<IF shallow THEN GraftCommit ELSE IntroCommit>>
    ELSE <<>>

(* the try block of the loop (lines 313-345): <<>> for None, else the dict *)
TraceBlame(proj, shallow, p, pkg_name) ==
    LET traced == IF _find_direct_dep_in_manifest(proj, pkg_name)
                  THEN Chain(pkg_name, <<pkg_name>>)
                  ELSE _trace_dep_chain_via_pm(proj, p, pkg_name)
        commit == _git_pickaxe(proj, shallow, traced.direct)
    IN  IF commit = <<>> THEN <<>>
        ELSE <<[direct_dependency |-> traced.direct,
                dependency_chain |-> traced.chain,
                commit |-> commit[1]]>>

SetBlame(entry, found) ==
    [entry EXCEPT !.introduced_by = IF found = <<>> THEN "None" ELSE "found"]

Violations == results.restrictive

(* `if not violations: return violations` *)
BlameReturnEmpty ==
    /\ pc = "blame_call"
    /\ Violations = <<>>
    /\ pc' = "blame_done"
    /\ UNCHANGED <<call, ret, cfg, packages, registry, ecosystem, hasGit, idx, results,
                   unknown_pkgs, lookups, output, prev, project, pm, proc, blame,
                   repo, tmpdir, orgVars>>

(* the deepening, then no manifest pathspec for the package manager: every
   record gets None *)
BlameSkip ==
    /\ pc = "blame_call"
    /\ Violations /= <<>>
    /\ _get_manifest_pathspecs(pm[1]) = <<>>
    /\ repo' = Unshallowed(repo, project)
    /\ results' = [results EXCEPT !.restrictive =
                      [i \in 1..Len(@) |-> SetBlame(@[i], <<>>)]]
    /\ blame' = [i \in 1..Len(Violations) |-> <<>>]
    /\ pc' = "blame_done"
    /\ UNCHANGED <<call, ret, cfg, packages, registry, ecosystem, hasGit, idx,
                   unknown_pkgs, lookups, output, prev, project, pm, proc,
                   tmpdir, orgVars>>

(* the deepening, then the loop is entered *)
BlameStartLoop ==
    /\ pc = "blame_call"
    /\ Violations /= <<>>
    /\ _get_manifest_pathspecs(pm[1]) /= <<>>
    /\ repo' = Unshallowed(repo, project)
    /\ idx' = 1
    /\ pc' = "blame_loop"
    /\ UNCHANGED <<call, ret, cfg, packages, registry, ecosystem, hasGit, results,
                   unknown_pkgs, lookups, output, prev, project, pm, proc, blame,
                   tmpdir, orgVars>>

(* the history search of one record, unless the chain tracing raised first *)
Searched(r, name) ==
    IF name \in project.raises THEN r ELSE [r EXCEPT !.log = Append(@, LogPickaxe)]

(* an exception of the try block leaves the function *)
TraceOne_Propagates ==
    /\ pc = "blame_loop"
    /\ idx <= Len(Violations)
    /\ LET name == Violations[idx].name
           found == TraceBlame(project, repo.shallow, pm[1], name)
       IN  IF name \in project.raises
           THEN /\ pc' = "crashed"
                /\ UNCHANGED <<results, blame, idx, repo>>
           ELSE /\ results' = [results EXCEPT !.restrictive[idx] = SetBlame(@, found)]
                /\ blame' = Append(blame, found)
                /\ idx' = idx + 1
                /\ repo' = Searched(repo, name)
                /\ UNCHANGED pc
    /\ UNCHANGED <<call, ret, cfg, packages, registry, ecosystem, hasGit,
                   unknown_pkgs, lookups, output, prev, project, pm, proc,
                   tmpdir, orgVars>>

(* one turn of `for violation in violations`; `except Exception` gives None *)
TraceOne ==
    /\ pc = "blame_loop"
    /\ idx <= Len(Violations)
    /\ LET name == Violations[idx].name
           found == IF name \in project.raises THEN <<>>
                    ELSE TraceBlame(project, repo.shallow, pm[1], name)
       IN  /\ results' = [results EXCEPT !.restrictive[idx] = SetBlame(@, found)]
           /\ blame' = Append(blame, found)
           /\ repo' = Searched(repo, name)
    /\ idx' = idx + 1
    /\ UNCHANGED <<call, ret, cfg, packages, registry, ecosystem, hasGit, pc,
                   unknown_pkgs, lookups, output, prev, project, pm, proc,
                   tmpdir, orgVars>>

BlameReturn ==
    /\ pc = "blame_loop"
    /\ idx > Len(Violations)
    /\ pc' = "blame_done"
    /\ UNCHANGED <<call, ret, cfg, packages, registry, ecosystem, hasGit, idx, results,
                   unknown_pkgs, lookups, output, prev, project, pm, proc, blame,
                   repo, tmpdir, orgVars>>

----------------------------------------------------------------------------
(* SpecBlame: trace_blame_for_violations on drawn projects and violations *)

BlameConfig == Config(TiersDefault, <<>>, SeverityFull)

Violation(name) == FirstPassEntry(Record(name, S("GPL"), FALSE), BlameConfig)

ViolationLists ==
    UNION {[1..n -> {Violation(Leaf), Violation(Middle)}] : n \in 0..MaxViolations}

BlameProject(leaf_path, declared, tool_ok, nested, history, raises, shallow) ==
    [root |-> App, leaf_path |-> leaf_path, declared |-> declared, lockfile |-> TRUE,
     tool_ok |-> tool_ok, nested |-> nested, history |-> history, raises |-> raises,
     shallow |-> shallow /= "no", unshallow_ok |-> shallow /= "stays"]

(* .git/shallow: absent; present and the fetch deepens; present and it fails *)
Shallowness == {"no", "deepened", "stays"}

BlameProjects ==
    { BlameProject(path, declared, tool_ok, nested, history, raises, shallow) :
        path \in {<<Middle, Leaf>>, <<Middle, Inner, Leaf>>},
        declared \in {{Middle}, {Middle, Leaf}},
        tool_ok \in BOOLEAN,
        nested \in BOOLEAN,
        history \in {{}, {Middle}, {App, Middle, Inner, Leaf}},
        raises \in {{}, {Leaf}, {Middle}},
        shallow \in Shallowness }

BlamePms == ChainPms \cup {"poetry", "swift"}

InitBlame ==
    /\ call = NoCall
    /\ ret = <<>>
    /\ cfg = BlameConfig
    /\ packages = <<>>
    /\ registry = <<>>
    /\ ecosystem = "npm"
    /\ hasGit = TRUE
    /\ pc = "blame_call"
    /\ idx = 0
    /\ \E v \in ViolationLists : results = [EmptyResults EXCEPT !.restrictive = v]
    /\ unknown_pkgs = <<>>
    /\ lookups = <<>>
    /\ output = <<>>
    /\ prev = <<>>
    /\ project \in BlameProjects
    /\ \E p \in BlamePms : pm = <<p>>
    /\ proc = NoProcess
    /\ blame = <<>>
    /\ repo = [shallow |-> project.shallow, log |-> <<>>]
    /\ tmpdir = "none"
    /\ OrgIdle

NextBlame ==
    \/ BlameReturnEmpty
    \/ BlameSkip
    \/ BlameStartLoop
    \/ TraceOne
    \/ BlameReturn

SpecBlame == InitBlame /\ [][NextBlame]_vars

----------------------------------------------------------------------------
(* license_check.py main, clone_and_install and the extraction step of
   scan_project, with the extractors of ecosystems/ *)

(* how the native tool of the ecosystem behaves (pnpm licenses list, cargo
   metadata): it lists the packages, is not installed, times out, exits
   non-zero with nothing or with a listing on stdout, or prints an error
   object *)
ToolRuns == {"ok", "missing", "timeout", "nonzero_silent", "nonzero_listing", "error_json"}

PythonPms == {"poetry", "uv", "pipenv", "pip"}
NoInstallPms ==
    {"cargo", "swift", "gradle", "dart", "go", "csharp", "solidity"} \cup PythonPms

(* scan_project lines 230-286: the registry tag of the package manager *)
EcosystemOf(p) ==
    IF p = "cargo" THEN "cargo"
    ELSE IF p \in {"swift", "dart", "go"} THEN "github"
    ELSE IF p = "gradle" THEN "maven"
    ELSE IF p = "csharp" THEN "nuget"
    ELSE IF p \in PythonPms THEN "pypi"
    ELSE "npm"

Extracted(pkgs, asked) == [packages |-> pkgs, lookups |-> asked]

(* js.py extract_licenses_pnpm: the return code is not looked at; no stdout,
   an exception of subprocess.run or an error object give [] *)
extract_licenses_pnpm(proj) ==
    IF proj.tool \in {"ok", "nonzero_listing"} THEN proj.listed ELSE <<>>

(* js.py extract_licenses_node_modules *)
extract_licenses_node_modules(proj) ==
    IF proj.node_modules = <<>> THEN <<>> ELSE proj.node_modules[1]

(* rust.py extract_licenses_cargo: any failure of cargo metadata gives [] *)
extract_licenses_cargo(proj) ==
    IF proj.tool = "ok" THEN proj.listed ELSE <<>>

(* the extractors that read a lockfile and ask a registry for every entry
   (python.py 188-203, go.py 105-119, swift.py 113-126, dart.py 207-221,
   gradle.py 253-268, csharp.py 138-151, solidity.py 72-88) *)
ExtractViaRegistry(names, reg) ==
    [i \in 1..Len(names) |->
        Record(names[i],
               IF reg[names[i]] = <<>> THEN S("UNKNOWN") ELSE reg[names[i]][1],
               FALSE)]

(* solidity.py 91-110: the npm dependencies of package.json, left UNKNOWN *)
NpmDepsOfManifest(names) ==
    [i \in 1..Len(names) |-> Record(names[i], S("UNKNOWN"), FALSE)]

(* scan_project lines 232-322: the packages of the project and the names
   asked from a registry on the way *)
ExtractPackages(proj, p, reg) ==
    IF p = "pnpm"
    THEN LET listed == extract_licenses_pnpm(proj)
         IN  Extracted(IF listed = <<>> THEN extract_licenses_node_modules(proj)
                       ELSE listed, <<>>)
    ELSE IF p \in {"npm", "yarn"} THEN Extracted(extract_licenses_node_modules(proj), <<>>)
    ELSE IF p = "cargo" THEN Extracted(extract_licenses_cargo(proj), <<>>)
    ELSE IF p = "solidity"
         THEN Extracted(ExtractViaRegistry(proj.locked, reg)
                            \o NpmDepsOfManifest(proj.manifest_deps), proj.locked)
    ELSE Extracted(ExtractViaRegistry(proj.locked, reg), proj.locked)

DetectionError == [error |-> <<"No lockfile found.">>]

Exit(code, printed, trace) ==
    [stdout |-> printed, exit |-> <<code>>, traceback |-> trace]

(* lines 383-412: argparse ends the process with status 2 on a command line
   it rejects; an unreadable configuration file raises out of load_config *)
ParseArgs ==
    /\ pc = "main"
    /\ IF ~project.argv_ok THEN proc' = Exit(2, <<>>, FALSE) /\ pc' = "exited"
       ELSE IF ~project.config_ok THEN proc' = Exit(1, <<>>, TRUE) /\ pc' = "exited"
       ELSE proc' = proc /\ pc' = "start"
    /\ UNCHANGED <<call, ret, cfg, packages, registry, ecosystem, hasGit, idx, results,
                   unknown_pkgs, lookups, output, prev, project, pm, blame,
                   repo, tmpdir, orgVars>>

(* --repo: clone_and_install, and sys.exit(1) when it gives (None, None).
   mkdtemp creates the directory; each `return None, None` removes it first;
   an exception of detect_package_manager leaves clone_and_install before
   main has the path, so the finally block of main has nothing to remove *)
CloneAndInstall ==
    /\ pc = "start"
    /\ project.repo
    /\ LET found == detect_package_manager(project.dir)
       IN  IF ~project.clone_ok
           THEN /\ proc' = Exit(1, <<>>, FALSE) /\ pc' = "exited" /\ pm' = pm
                /\ tmpdir' = "removed"
           ELSE IF found.raised /= ""
           THEN /\ proc' = Exit(1, <<>>, TRUE) /\ pc' = "exited" /\ pm' = pm
                /\ tmpdir' = "exists"
           ELSE IF found.value = <<>>
           THEN /\ proc' = Exit(1, <<>>, FALSE) /\ pc' = "exited" /\ pm' = pm
                /\ tmpdir' = "removed"
           ELSE IF found.value[1] \notin NoInstallPms /\ ~project.install_ok
           THEN /\ proc' = Exit(1, <<>>, FALSE) /\ pc' = "exited" /\ pm' = pm
                /\ tmpdir' = "removed"
           ELSE /\ proc' = proc /\ pc' = "scan" /\ pm' = found.value
                /\ tmpdir' = "exists"
    /\ UNCHANGED <<call, ret, cfg, packages, registry, ecosystem, hasGit, idx, results,
                   unknown_pkgs, lookups, output, prev, project, blame,
                   repo, orgVars>>

(* the finally block of main: `if tmpdir and tmpdir.exists(): rmtree` *)
Finally(dir) == IF dir = "exists" THEN "removed" ELSE dir

(* --path or the working directory: detect_package_manager, and the error
   payload with sys.exit(1) when nothing is detected *)
DetectLocal ==
    /\ pc = "start"
    /\ ~project.repo
    /\ LET found == detect_package_manager(project.dir)
       IN  IF found.raised /= ""
           THEN proc' = Exit(1, <<>>, TRUE) /\ pc' = "exited" /\ pm' = pm
           ELSE IF found.value = <<>>
           THEN proc' = Exit(1, <<DetectionError>>, FALSE) /\ pc' = "exited" /\ pm' = pm
           ELSE proc' = proc /\ pc' = "scan" /\ pm' = found.value
    /\ UNCHANGED <<call, ret, cfg, packages, registry, ecosystem, hasGit, idx, results,
                   unknown_pkgs, lookups, output, prev, project, blame,
                   repo, tmpdir, orgVars>>

(* scan_project up to `if not packages` *)
ExtractStep ==
    /\ pc = "scan"
    /\ LET got == ExtractPackages(project, pm[1], registry)
       IN  /\ packages' = got.packages
           /\ lookups' = got.lookups
    /\ ecosystem' = EcosystemOf(pm[1])
    /\ pc' = "extracted"
    /\ UNCHANGED <<call, ret, cfg, registry, hasGit, idx, results, unknown_pkgs,
                   output, prev, project, pm, proc, blame,
                   repo, tmpdir, orgVars>>

(* lines 431-436: the result is printed; exit status 2 with violations, else
   main returns *)
PrintResult ==
    /\ pc = "returned"
    /\ LET result == output[1]
           violations == IF result.error /= <<>> THEN FALSE ELSE result.has_violations
       IN  proc' = Exit(IF violations THEN 2 ELSE 0, <<result>>, FALSE)
    /\ pc' = "exited"
    /\ tmpdir' = Finally(tmpdir)
    /\ UNCHANGED <<call, ret, cfg, packages, registry, ecosystem, hasGit, idx, results,
                   unknown_pkgs, lookups, output, prev, project, pm, blame,
                   repo, orgVars>>

(* an exception out of scan_project is caught nowhere: traceback, status 1 *)
UncaughtException ==
    /\ pc = "crashed"
    /\ proc' = Exit(1, <<>>, TRUE)
    /\ pc' = "exited"
    /\ tmpdir' = Finally(tmpdir)
    /\ UNCHANGED <<call, ret, cfg, packages, registry, ecosystem, hasGit, idx, results,
                   unknown_pkgs, lookups, output, prev, project, pm, blame,
                   repo, orgVars>>

----------------------------------------------------------------------------
(* SpecMain: one run of the scanner, from the command line to the exit *)

MainProject(mode, dir, tool, listed, node_modules, locked, manifest_deps) ==
    [argv_ok |-> mode /= "bad_argv",
     config_ok |-> mode /= "bad_config",
     repo |-> mode \in {"repo", "clone_fails", "install_fails"},
     clone_ok |-> mode /= "clone_fails",
     install_ok |-> mode /= "install_fails",
     dir |-> dir, tool |-> tool, listed |-> listed, node_modules |-> node_modules,
     locked |-> locked, manifest_deps |-> manifest_deps]

RunModes == {"local", "repo", "clone_fails", "install_fails", "bad_argv", "bad_config"}

(* what the tool or node_modules lists: names are unique in a project *)
ListedPackages ==
    { <<>>,
      <<Record(React, S("MIT"), FALSE)>>,
      <<Record(React, S("GPL"), FALSE), Record(Leftpad, S("UNKNOWN"), TRUE)>> }

LockedNames == { <<>>, <<React>>, <<React, Leftpad>> }

JsDirs ==
    { Directory({"pnpm-lock.yaml"}, BarePkgJson),
      Directory({"yarn.lock"}, BarePkgJson),
      Directory({}, PkgJson(TRUE, "ok", TRUE, StrField(<<"npm", "@", "9">>))) }

LockfileDirs ==
    { Directory({f}, NoPkgJson) :
        f \in {"poetry.lock", "requirements.txt", "go.mod", "Package.resolved",
               "build.gradle", "App.csproj"} }

UndetectedDirs ==
    { Directory({}, NoPkgJson), Directory({}, BarePkgJson),
      Directory({}, PkgJson(TRUE, "ok", FALSE, <<>>)) }

MainProjects ==
    { MainProject(mode, dir, tool, listed, <<>>, <<>>, <<>>) :
        mode \in RunModes, dir \in {Directory({"pnpm-lock.yaml"}, BarePkgJson)},
        tool \in ToolRuns, listed \in ListedPackages }
    \cup
    { MainProject(mode, dir, tool, <<Record(React, S("MIT"), FALSE)>>, <<nm>>, <<>>, <<>>) :
        mode \in RunModes, dir \in JsDirs, tool \in {"ok", "missing", "nonzero_silent"},
        nm \in ListedPackages }
    \cup
    { MainProject(mode, Directory({"Cargo.toml"}, NoPkgJson), tool, listed, <<>>, <<>>, <<>>) :
        mode \in RunModes, tool \in ToolRuns, listed \in ListedPackages }
    \cup
    { MainProject(mode, dir, "ok", <<>>, <<>>, locked, <<>>) :
        mode \in RunModes, dir \in LockfileDirs, locked \in LockedNames }
    \cup
    { MainProject(mode, Directory({"foundry.toml"}, BarePkgJson), "ok", <<>>, <<>>,
                  locked, deps) :
        mode \in RunModes, locked \in {<<>>, <<React>>}, deps \in {<<>>, <<Leftpad>>} }
    \cup
    { MainProject(mode, dir, "ok", <<>>, <<>>, <<>>, <<>>) :
        mode \in {"local", "repo"}, dir \in UndetectedDirs }

MainConfigs ==
    { Config(TiersDefault, <<>>, SeverityFull),
      Config(TiersDefault, <<OvForeign>>, SeverityFull) }

InitMain ==
    /\ call = NoCall
    /\ ret = <<>>
    /\ cfg \in MainConfigs
    /\ packages = <<>>
    /\ registry \in {RegistryGpl, RegistrySilent}
    /\ ecosystem = "npm"
    /\ hasGit = FALSE
    /\ pc = "main"
    /\ idx = 0
    /\ results = EmptyResults
    /\ unknown_pkgs = <<>>
    /\ lookups = <<>>
    /\ output = <<>>
    /\ prev = <<>>
    /\ project \in MainProjects
    /\ pm = <<>>
    /\ proc = NoProcess
    /\ blame = <<>>
    /\ repo = NoRepo
    /\ tmpdir = "none"
    /\ OrgIdle

NextMain ==
    \/ ParseArgs
    \/ CloneAndInstall
    \/ DetectLocal
    \/ ExtractStep
    \/ ReturnNoPackages
    \/ StartClassify
    \/ FirstPassStep
    \/ SecondPassStep
    \/ SkipSecondPass
    \/ FinishScan
    \/ PrintResult
    \/ UncaughtException

SpecMain == InitMain /\ [][NextMain]_vars

----------------------------------------------------------------------------
(* The extractors as functions of what the lockfile or the tool lists:
   ecosystems/python.py extract_licenses_python with its parsers, and
   ecosystems/js.py extract_licenses_pnpm *)

MaxDeps == 2

RawDep(name, version) == [name |-> name, version |-> version]

RawDeps == { RawDep(n, v) : n \in {React, Leftpad}, v \in {"1.0", "2.0"} }

DepRecord(name, version, license, is_dev) ==
    [name |-> name, version |-> version, license |-> license, is_dev |-> is_dev]

DepLists == UNION {[1..n -> RawDeps] : n \in 0..MaxDeps}

(* the members of a JSON object, in file order: no key twice *)
DictSections ==
    { s \in DepLists : \A i, j \in 1..Len(s) : s[i].name = s[j].name => i = j }

(* the [[package]] blocks a lock tool writes: no (name, version) pair twice *)
LockBlocks == { s \in DepLists : \A i, j \in 1..Len(s) : s[i] = s[j] => i = j }

(* python.py 77-95: the default section, then the develop section *)
_parse_pipfile_lock(data) ==
    [i \in 1..Len(data.default) |->
        [name |-> data.default[i].name, version |-> data.default[i].version,
         is_dev |-> FALSE]]
    \o [i \in 1..Len(data.develop) |->
        [name |-> data.develop[i].name, version |-> data.develop[i].version,
         is_dev |-> TRUE]]

(* python.py 98-130: one entry per requirement line *)
_parse_requirements_txt(lines) ==
    [i \in 1..Len(lines) |->
        [name |-> lines[i].name, version |-> lines[i].version, is_dev |-> FALSE]]

(* python.py 41-74: one entry per [[package]] block; is_dev comes from
   pyproject.toml, here without dev section *)
_parse_poetry_lock(blocks) ==
    [i \in 1..Len(blocks) |->
        [name |-> blocks[i].name, version |-> blocks[i].version, is_dev |-> FALSE]]

RECURSIVE PythonRecords(_, _, _)
PythonRecords(raw_packages, prod_only, reg) ==
    IF raw_packages = <<>> THEN <<>>
    ELSE LET raw == Head(raw_packages)
             license_str == reg[raw.name]
             rest == PythonRecords(Tail(raw_packages), prod_only, reg)
         IN  IF prod_only /\ raw.is_dev THEN rest
             ELSE <<DepRecord(raw.name, raw.version,
                              IF license_str = <<>> THEN S("UNKNOWN") ELSE license_str[1],
                              raw.is_dev)>> \o rest

(* python.py 133-209 *)
extract_licenses_python(lockfile, p, prod_only, reg) ==
    LET raw_packages ==
            IF p \in {"poetry", "uv"} THEN _parse_poetry_lock(lockfile)
            ELSE IF p = "pipenv" THEN _parse_pipfile_lock(lockfile)
            ELSE IF p = "pip" THEN _parse_requirements_txt(lockfile)
            ELSE <<>>
    IN  PythonRecords(raw_packages, prod_only, reg)

(* js.py 72-93: the listing of `pnpm licenses list --json`, licence by
   licence; a (name, version) pair already seen is skipped *)
RECURSIVE PnpmRecords(_, _, _)
PnpmRecords(pkgs, license_id, seen) ==
    IF pkgs = <<>> THEN <<>>
    ELSE LET pkg == Head(pkgs)
             key == <<pkg.name, pkg.version>>
         IN  IF key \in seen THEN PnpmRecords(Tail(pkgs), license_id, seen)
             ELSE <<DepRecord(pkg.name, pkg.version, license_id, FALSE)>>
                  \o PnpmRecords(Tail(pkgs), license_id, seen \cup {key})

KeysOf(records) == { <<records[i].name, records[i].version>> : i \in 1..Len(records) }

PnpmListing(data) ==
    LET first == PnpmRecords(data.mit, S("MIT"), {})
    IN  first \o PnpmRecords(data.gpl, S("GPL"), KeysOf(first))

ExtractCalls ==
    { [fn |-> "extract_licenses_python",
       arg |-> [pm |-> "pipenv", lockfile |-> [default |-> d, develop |-> v],
                prod_only |-> po]] :
        d \in DictSections, v \in DictSections, po \in BOOLEAN }
    \cup
    { [fn |-> "extract_licenses_python",
       arg |-> [pm |-> p, lockfile |-> l, prod_only |-> po]] :
        p \in {"pip"}, l \in DepLists, po \in BOOLEAN }
    \cup
    { [fn |-> "extract_licenses_python",
       arg |-> [pm |-> p, lockfile |-> l, prod_only |-> po]] :
        p \in {"poetry", "uv"}, l \in LockBlocks, po \in BOOLEAN }
    \cup
    { [fn |-> "extract_licenses_pnpm", arg |-> [mit |-> a, gpl |-> b]] :
        a \in DepLists, b \in DepLists }

InitExtract ==
    /\ call \in ExtractCalls
    /\ cfg = Config(TiersDefault, <<>>, SeverityFull)
    /\ ret = <<>>
    /\ packages = <<>>
    /\ registry = RegistryGpl
    /\ ecosystem = "npm"
    /\ hasGit = FALSE
    /\ pc = "idle"
    /\ idx = 0
    /\ results = EmptyResults
    /\ unknown_pkgs = <<>>
    /\ lookups = <<>>
    /\ output = <<>>
    /\ prev = <<>>
    /\ MainIdle

ExtractPython ==
    /\ call.fn = "extract_licenses_python"
    /\ ret = <<>>
    /\ ret' = <<extract_licenses_python(call.arg.lockfile, call.arg.pm,
                                        call.arg.prod_only, registry)>>
    /\ UNCHANGED <<mainVars, call, cfg, scanVars>>

ExtractPnpm ==
    /\ call.fn = "extract_licenses_pnpm"
    /\ ret = <<>>
    /\ ret' = <<PnpmListing(call.arg)>>
    /\ UNCHANGED <<mainVars, call, cfg, scanVars>>

NextExtract ==
    \/ ExtractPython
    \/ ExtractPnpm

SpecExtract == InitExtract /\ [][NextExtract]_vars

----------------------------------------------------------------------------
(* org_scanner.py: the tracker, get_scan_candidates, scan_repo, run_scans,
   build_output and main.  Time is counted in half days, so that the whole
   days of an age are a rounding down *)

MaxRuns == 2

HalfDaysPerDay == 2

Repos == <<"org/a", "org/b">>

(* discover_repos: the entry of a repository seen for the first time *)
NewRepo ==
    [has_lockfile |-> <<>>, last_scanned |-> <<>>, last_result_summary |-> <<>>,
     scan_error |-> <<>>]

EmptyTracker == [names |-> <<>>, repos |-> <<>>]

(* the tracker file: absent, written whole, or cut off in the middle of a
   write (open(path, "w") truncates, json.dump then writes piece by piece) *)
NoFile == [state |-> "absent", content |-> EmptyTracker]
Written(tr) == [state |-> "complete", content |-> tr]
Truncated == [state |-> "partial", content |-> EmptyTracker]

(* load_tracker: json.load raises on a file that is not a whole document *)
load_tracker(file) ==
    IF file.state = "partial" THEN Raised("JSONDecodeError")
    ELSE Returned(file.content)

(* discover_repos: unknown repositories are appended, known ones keep their
   scan state *)
RECURSIVE discover_repos(_, _)
discover_repos(found, tr) ==
    IF found = <<>> THEN tr
    ELSE LET name == Head(found)
             added == IF name \in DOMAIN tr.repos THEN tr
                      ELSE [names |-> Append(tr.names, name),
                            repos |-> tr.repos @@ (name :> NewRepo)]
         IN  discover_repos(Tail(found), added)

(* check_lockfiles: every entry with has_lockfile None gets True or False *)
check_lockfiles(tr, with_manifest) ==
    [tr EXCEPT !.repos =
        [n \in DOMAIN tr.repos |->
            IF tr.repos[n].has_lockfile = <<>>
            THEN [tr.repos[n] EXCEPT !.has_lockfile = <<n \in with_manifest>>]
            ELSE tr.repos[n]]]

(* (now - last).days *)
AgeDays(now, last) == (now - last) \div HalfDaysPerDay

(* mutant: a repository is a candidate again as soon as its last scan failed *)
Selected_RetriesErrors(info, name, now, stale_days, only) ==
    /\ only /= <<>> => name \in only[1]
    /\ info.has_lockfile = <<TRUE>>
    /\ \/ info.last_scanned = <<>>
       \/ info.scan_error /= <<>>
       \/ /\ stale_days /= <<>>
          /\ AgeDays(now, info.last_scanned[1]) >= stale_days[1]

Selected(info, name, now, stale_days, only) ==
    /\ only /= <<>> => name \in only[1]
    /\ info.has_lockfile = <<TRUE>>
    /\ \/ info.last_scanned = <<>>
       \/ /\ stale_days /= <<>>
          /\ AgeDays(now, info.last_scanned[1]) >= stale_days[1]

get_scan_candidates(tr, now, stale_days, only) ==
    SelectSeq(tr.names, LAMBDA n : Selected(tr.repos[n], n, now, stale_days, only))

(* how one run of license_check.py --repo ends, as run_command sees it *)
ScanOutcomes == {"clean", "violations", "nonzero_exit", "timeout", "not_json", "error_payload"}

ScanSummary(restrictive) ==
    [restrictive |-> restrictive, total |-> 1, has_violations |-> restrictive > 0]

(* scan_repo: (summary, error), each <<>> for None *)
scan_repo(outcome) ==
    IF outcome = "clean" THEN [summary |-> <<ScanSummary(0)>>, error |-> <<>>]
    ELSE IF outcome = "violations" THEN [summary |-> <<ScanSummary(1)>>, error |-> <<>>]
    ELSE IF outcome = "nonzero_exit"
         THEN [summary |-> <<>>, error |-> <<"Failed to clone repo">>]
    ELSE IF outcome = "timeout"
         THEN [summary |-> <<>>, error |-> <<"Install timed out (likely large monorepo)">>]
    ELSE IF outcome = "not_json"
         THEN [summary |-> <<>>, error |-> <<"Invalid JSON output: ">>]
    ELSE [summary |-> <<>>, error |-> <<"No packages found.">>]

NoResults == [scanned |-> 0, errors |-> 0, violations |-> <<>>]

(* the body of the loop of run_scans for one candidate, before the save *)
Recorded(info, scanned, now) ==
    IF scanned.error /= <<>>
    THEN [info EXCEPT !.scan_error = scanned.error, !.last_scanned = <<now>>]
    ELSE [info EXCEPT !.last_scanned = <<now>>,
                      !.last_result_summary = scanned.summary,
                      !.scan_error = <<>>]

(* mutant: a repository with violations counted as an error *)
Counted_ViolationsAsErrors(res, name, scanned) ==
    IF scanned.error /= <<>> \/ scanned.summary[1].has_violations
    THEN [res EXCEPT !.errors = @ + 1]
    ELSE [res EXCEPT !.scanned = @ + 1]

Counted(res, name, scanned) ==
    IF scanned.error /= <<>> THEN [res EXCEPT !.errors = @ + 1]
    ELSE IF scanned.summary[1].has_violations
    THEN [res EXCEPT !.scanned = @ + 1, !.violations = Append(@, name)]
    ELSE [res EXCEPT !.scanned = @ + 1]

RECURSIVE SumOf(_, _)
SumOf(names, f) ==
    IF names = <<>> THEN 0 ELSE f[Head(names)] + SumOf(Tail(names), f)

(* build_output: the status lists and the aggregates *)
build_output(tr, res) ==
    LET info(n) == tr.repos[n]
        summarised == SelectSeq(tr.names, LAMBDA n : info(n).last_result_summary /= <<>>)
        count(key) == [n \in {summarised[i] : i \in 1..Len(summarised)} |->
                          info(n).last_result_summary[1][key]]
    IN  [scanned_repos |->
            SelectSeq(tr.names, LAMBDA n : info(n).last_scanned /= <<>>
                                           /\ info(n).scan_error = <<>>),
         error_repos |-> SelectSeq(tr.names, LAMBDA n : info(n).scan_error /= <<>>),
         unscanned_repos |->
            SelectSeq(tr.names, LAMBDA n : info(n).has_lockfile = <<TRUE>>
                                           /\ info(n).last_scanned = <<>>),
         aggregate_licenses |->
            [restrictive |-> SumOf(summarised, count("restrictive")),
             total |-> SumOf(summarised, count("total"))],
         repos_with_violations |->
            SelectSeq(summarised, LAMBDA n : info(n).last_result_summary[1].has_violations),
         scan_session |-> res]

(* what the org scanner leaves alone *)
orgFrame == <<call, ret, cfg, packages, registry, ecosystem, hasGit, idx, results,
              unknown_pkgs, lookups, prev, project, pm, proc, blame, repo, tmpdir>>

OrgArgs(orgs, stale_days, only) ==
    [orgs |-> orgs, stale_days |-> stale_days, only |-> only]

(* a run that did not reach its end: what it had planned and how far it got *)
Left(o, at) ==
    <<[candidates |-> o.candidates, done |-> o.i - 1, args |-> o.args, at |-> at,
       selected |-> o.selected]>>

(* main up to get_scan_candidates: the tracker is loaded; with --orgs the
   repositories are discovered and checked for lockfiles and the tracker is
   saved *)
StartRun ==
    /\ pc \in {"org_idle", "org_done", "org_interrupted"}
    /\ org.run < MaxRuns
    /\ \E orgs \in BOOLEAN, stale_days \in {<<>>, <<1>>}, only \in {<<>>, <<{Repos[1]}>>},
          passed \in {1, HalfDaysPerDay} :
         LET loaded == load_tracker(disk)
             started == [org EXCEPT !.run = @ + 1,
                                    !.now = @ + passed,
                                    !.args = OrgArgs(orgs, stale_days, only),
                                    !.candidates = <<>>,
                                    !.selected = FALSE,
                                    !.i = 1,
                                    !.results = NoResults,
                                    !.outcomes = <<>>,
                                    !.after = "select",
                                    !.left = IF pc = "org_interrupted" THEN org.left
                                             ELSE <<>>]
         IN  IF loaded.raised /= ""
             THEN /\ pc' = "crashed"
                  /\ org' = started
                  /\ UNCHANGED tracker
             ELSE IF orgs
             THEN /\ tracker' = check_lockfiles(discover_repos(Repos, loaded.value),
                                                org.with_manifest)
                  /\ org' = started
                  /\ pc' = "org_save"
             ELSE /\ tracker' = loaded.value
                  /\ org' = started
                  /\ pc' = "org_select"
    /\ output' = <<>>
    /\ UNCHANGED <<orgFrame, disk>>

(* get_scan_candidates, then the head of run_scans; with no candidate
   run_scans returns at once and main saves the tracker *)
SelectCandidates ==
    /\ pc = "org_select"
    /\ LET candidates == get_scan_candidates(tracker, org.now, org.args.stale_days,
                                             org.args.only)
       IN  /\ org' = [org EXCEPT !.candidates = candidates,
                                 !.selected = TRUE,
                                 !.after = IF candidates = <<>> THEN "output" ELSE "scan"]
           /\ pc' = IF candidates = <<>> THEN "org_save" ELSE "org_scan"
    /\ UNCHANGED <<orgFrame, output, tracker, disk>>

(* one turn of the loop of run_scans up to save_tracker *)
ScanOne ==
    /\ pc = "org_scan"
    /\ org.i <= Len(org.candidates)
    /\ \E outcome \in ScanOutcomes :
         LET name == org.candidates[org.i]
             scanned == scan_repo(outcome)
         IN  /\ tracker' = [tracker EXCEPT !.repos[name] = Recorded(@, scanned, org.now)]
             /\ org' = [org EXCEPT !.results = Counted(@, name, scanned),
                                   !.outcomes = Append(@, <<name, outcome>>)]
    /\ pc' = "org_save"
    /\ UNCHANGED <<orgFrame, output, disk>>

(* save_tracker: open(path, "w") empties the file *)
SaveOpen ==
    /\ pc = "org_save"
    /\ disk' = Truncated
    /\ pc' = "org_write"
    /\ UNCHANGED <<orgFrame, output, tracker, org>>

(* save_tracker: json.dump has written the whole document; then the next
   candidate, or after the last one the return of run_scans and the
   save_tracker of main *)
SaveWrite ==
    /\ pc = "org_write"
    /\ disk' = Written(tracker)
    /\ IF org.after = "select"
       THEN /\ pc' = "org_select"
            /\ org' = org
       ELSE IF org.after = "scan"
       THEN /\ org' = [org EXCEPT !.i = @ + 1,
                                  !.processed = @ \cup {org.candidates[org.i]},
                                  !.after = IF org.i = Len(org.candidates)
                                            THEN "output" ELSE "scan"]
            /\ pc' = IF org.i = Len(org.candidates) THEN "org_save" ELSE "org_scan"
       ELSE /\ pc' = "org_output"
            /\ org' = org
    /\ UNCHANGED <<orgFrame, output, tracker>>

(* main: build_output is printed *)
BuildOutput ==
    /\ pc = "org_output"
    /\ output' = <<build_output(tracker, org.results)>>
    /\ pc' = "org_done"
    /\ UNCHANGED <<orgFrame, tracker, disk, org>>

(* the process is killed (SIGKILL, power loss): what is in memory is gone,
   the file stays as it is *)
Interrupt ==
    /\ pc \in {"org_select", "org_scan", "org_save", "org_write", "org_output"}
    /\ org' = [org EXCEPT !.left = Left(org, pc)]
    /\ pc' = "org_interrupted"
    /\ UNCHANGED <<orgFrame, output, tracker, disk>>

----------------------------------------------------------------------------
(* SpecOrg: runs of the org scanner on one tracker file, some interrupted *)

InitOrg ==
    /\ call = NoCall
    /\ ret = <<>>
    /\ cfg = Config(TiersDefault, <<>>, SeverityFull)
    /\ packages = <<>>
    /\ registry = <<>>
    /\ ecosystem = "npm"
    /\ hasGit = FALSE
    /\ pc = "org_idle"
    /\ idx = 0
    /\ results = EmptyResults
    /\ unknown_pkgs = <<>>
    /\ lookups = <<>>
    /\ output = <<>>
    /\ prev = <<>>
    /\ project = <<>>
    /\ pm = <<>>
    /\ proc = NoProcess
    /\ blame = <<>>
    /\ repo = NoRepo
    /\ tmpdir = "none"
    /\ tracker = EmptyTracker
    /\ disk = NoFile
    /\ \E with_manifest \in {s \in SUBSET {Repos[i] : i \in 1..Len(Repos)} : Repos[1] \in s} :
         org = [run |-> 0, now |-> 0, with_manifest |-> with_manifest,
                args |-> OrgArgs(FALSE, <<>>, <<>>), candidates |-> <<>>,
                selected |-> FALSE, i |-> 1, results |-> NoResults, outcomes |-> <<>>,
                after |-> "select", left |-> <<>>, processed |-> {}]

NextOrg ==
    \/ StartRun
    \/ SelectCandidates
    \/ ScanOne
    \/ SaveOpen
    \/ SaveWrite
    \/ BuildOutput
    \/ Interrupt

SpecOrg == InitOrg /\ [][NextOrg]_vars

----------------------------------------------------------------------------
(* Properties of classify_packages and scan_project (Spec) *)

(* classify_packages has returned its buckets *)
Classified ==
    \/ pc = "classified"
    \/ pc = "returned" /\ output[1].error = <<>>

(* all entries of the five buckets *)
Flat ==
    results.permissive \o results.weak_copyleft \o results.restrictive
    \o results.custom \o results.unknown

(* the raw license the extractor reported, read back from an entry: the
   second pass appends " -> <tag>:<license>" to it *)
OrigRaw(e) ==
    IF e.resolved_via = <<>> THEN e.raw_license
    ELSE SubSeq(e.raw_license, 1,
                (CHOOSE i \in 1..Len(e.raw_license) : e.raw_license[i] = " -> ") - 1)

(* the entry e is the classification of the record p *)
SameRecord(e, p) ==
    /\ e.name = p.name
    /\ e.version = p.version
    /\ e.is_dev = p.is_dev
    /\ OrigRaw(e) = p.license

Copies(p) == Cardinality({m \in 1..Len(packages) : packages[m] = p})

(* some license_overrides key matches the name, exactly or as a glob *)
NameMatches(name) ==
    \E i \in 1..Len(cfg.license_overrides) :
        \/ name = cfg.license_overrides[i].pattern
        \/ FnMatch(name, cfg.license_overrides[i].pattern)

(* the override of the first matching key in file order *)
FirstMatchingOverride(name) ==
    LET ov == cfg.license_overrides
    IN  ov[CHOOSE i \in 1..Len(ov) :
            /\ (name = ov[i].pattern \/ FnMatch(name, ov[i].pattern))
            /\ \A j \in 1..(i - 1) :
                  ~(name = ov[j].pattern \/ FnMatch(name, ov[j].pattern))].override

(* C1 (as claimed): for every record list and every configuration each input
   record ends up in exactly one of the five buckets, and every entry's tier
   field names the bucket that holds it. *)
C1_EveryRecordInOneBucket ==
    /\ pc /= "crashed"
    /\ Classified =>
         /\ \A b \in Buckets : \A j \in 1..Len(results[b]) : results[b][j].tier = b
         /\ \A k \in 1..Len(packages) :
               Cardinality({j \in 1..Len(Flat) : SameRecord(Flat[j], packages[k])})
                   = Copies(packages[k])

(* C2: a package whose name matches an override entry is classified with the
   override's license and tier, in the override's tier bucket, whatever its
   raw license, and is never looked up in the registry. *)
C2_OverridesWin ==
    /\ \A i \in 1..Len(lookups) : ~NameMatches(lookups[i])
    /\ Classified =>
         /\ \A b \in Buckets : \A j \in 1..Len(results[b]) :
               LET e == results[b][j]
               IN  NameMatches(e.name) =>
                     /\ e.license = FirstMatchingOverride(e.name).license
                     /\ e.tier = FirstMatchingOverride(e.name).tier
                     /\ b = e.tier
                     /\ e.resolved_via = <<>>
         /\ \A k \in 1..Len(packages) :
               NameMatches(packages[k].name) =>
                 LET tier == FirstMatchingOverride(packages[k].name).tier
                 IN  Cardinality({j \in 1..Len(results[tier]) :
                                    SameRecord(results[tier][j], packages[k])})
                         = Copies(packages[k])

C2_Witness ==
    /\ pc = "classified"
    /\ lookups = <<React>>
    /\ \E j \in 1..Len(results.custom) :
          /\ results.custom[j].name = Leftpad
          /\ results.custom[j].raw_license = S("GPL")
          /\ results.custom[j].license = S("Leftpad-EULA")

(* the first pass does not try to classify these raw license strings *)
IsSentinel(s) ==
    \/ StartsWith(Upper(s), SeeLicenseIn)
    \/ s \in {S("UNLICENSED"), S("Unknown"), S("UNKNOWN"), <<>>}

(* the string is read as one identifier: no " OR ", no " AND ", and no slash
   form with a recognized part *)
IsSingleIdentifier(s) ==
    /\ ~Contains(s, SepOr)
    /\ ~Contains(s, SepAnd)
    /\ ~(/\ Contains(s, SepSlash) /\ ~Contains(s, <<" ">>)
         /\ \E q \in {SlashParts(s, SepSlash)[i] : i \in 1..Len(SlashParts(s, SepSlash))} :
               classify_license(normalize_license(q, cfg), cfg) /= "unknown")
    /\ ~(/\ Contains(s, SepSpSlash)
         /\ \E q \in {SlashParts(s, SepSpSlash)[i] : i \in 1..Len(SlashParts(s, SepSpSlash))} :
               classify_license(normalize_license(q, cfg), cfg) /= "unknown")

(* alias normalization leaves the string as it is *)
NormalizesToItself(s) ==
    /\ s /= <<>>
    /\ Strip(s, Whitespace) = s
    /\ (s \in DOMAIN cfg.aliases => cfg.aliases[s] = s)

ListedIn(s, i) == s \in cfg.license_tiers[i].licenses

(* C7 (as claimed): a record without override whose raw license is listed in
   a tier's membership list is classified into that tier, its license
   reported verbatim. *)
C7_ListedLicenseKeepsTier ==
    Classified =>
        \A k \in 1..Len(packages) : \A i \in 1..Len(cfg.license_tiers) :
            LET p == packages[k]
                tier == cfg.license_tiers[i].tier
            IN  (~NameMatches(p.name) /\ ListedIn(p.license, i) /\ tier \in Buckets) =>
                  Cardinality({j \in 1..Len(results[tier]) :
                                 /\ SameRecord(results[tier][j], p)
                                 /\ results[tier][j].license = p.license
                                 /\ results[tier][j].tier = tier})
                      = Copies(p)

(* C7 (amended): whenever classify_packages returns, a record without
   override whose raw license is listed in a tier's membership list is
   classified into that tier with the license reported verbatim, provided the
   string is not a no-license marker (UNLICENSED, Unknown, UNKNOWN, empty,
   SEE LICENSE IN ...), is read as one identifier (no " OR ", no " AND ", no
   slash form with a recognized part), is left unchanged by alias
   normalization, and the tier is the first one listing it, is one of the
   five buckets and is not "unknown". *)
C7_ListedIdentifierKeepsTier ==
    Classified =>
        \A k \in 1..Len(packages) : \A i \in 1..Len(cfg.license_tiers) :
            LET p == packages[k]
                tier == cfg.license_tiers[i].tier
            IN  (/\ ~NameMatches(p.name)
                 /\ ListedIn(p.license, i)
                 /\ \A h \in 1..(i - 1) : ~ListedIn(p.license, h)
                 /\ tier \in Buckets \ {"unknown"}
                 /\ ~IsSentinel(p.license)
                 /\ IsSingleIdentifier(p.license)
                 /\ NormalizesToItself(p.license)) =>
                  Cardinality({j \in 1..Len(results[tier]) :
                                 /\ SameRecord(results[tier][j], p)
                                 /\ results[tier][j].license = p.license
                                 /\ results[tier][j].tier = tier})
                      = Copies(p)

C7_Witness ==
    /\ pc = "classified"
    /\ cfg.license_tiers = TiersCustom
    /\ \E j \in 1..Len(results.restrictive) :
          /\ results.restrictive[j].name = React
          /\ results.restrictive[j].raw_license = S("GPL")
          /\ results.restrictive[j].license = S("GPL")

(* severity_map.get(tier, default): "REVIEW" on the override path (the entry
   has a note key), "LOW" on the two passes *)
BaseSeverity(e) ==
    IF e.tier \in DOMAIN cfg.severity_map THEN cfg.severity_map[e.tier]
    ELSE IF e.note /= <<>> THEN "REVIEW" ELSE "LOW"

(* C8: the severity of a dev-only entry is dev_severity_reduction applied once
   to the severity of its tier (unchanged without an entry for it), that of any
   other entry is the severity of its tier; tier, bucket and license of a
   record do not depend on is_dev; on the override path, the first pass and
   the second pass alike. *)
C8_DevReductionChangesSeverityOnly ==
    Classified =>
        /\ \A b \in Buckets : \A j \in 1..Len(results[b]) :
              LET e == results[b][j]
                  base == BaseSeverity(e)
              IN  e.severity = IF e.is_dev
                               THEN Get(cfg.dev_severity_reduction, base, base)
                               ELSE base
        /\ \A i \in 1..Len(Flat) : \A j \in 1..Len(Flat) :
              (/\ Flat[i].name = Flat[j].name
               /\ Flat[i].version = Flat[j].version
               /\ OrigRaw(Flat[i]) = OrigRaw(Flat[j])) =>
                 /\ Flat[i].tier = Flat[j].tier
                 /\ Flat[i].license = Flat[j].license
                 /\ \A b \in Buckets :
                       (\E m \in 1..Len(results[b]) : results[b][m] = Flat[i])
                       <=> (\E m \in 1..Len(results[b]) : results[b][m] = Flat[j])

(* a dev-only and a plain record of the same package, both resolved by the
   registry into the restrictive tier *)
C8_Witness ==
    /\ pc = "classified"
    /\ Len(results.restrictive) = 2
    /\ results.restrictive[1].resolved_via /= <<>>
    /\ results.restrictive[1].is_dev
    /\ results.restrictive[1].severity = "MEDIUM"
    /\ results.restrictive[2].resolved_via /= <<>>
    /\ ~results.restrictive[2].is_dev
    /\ results.restrictive[2].severity = "HIGH"

(* what classify_packages returns for the record alone, blame aside *)
SoloEntry(p) ==
    LET override == find_override(p.name, cfg)
        first == FirstPassEntry(p, cfg)
    IN  IF override /= <<>> THEN OverrideEntry(p, override[1], cfg)
        ELSE IF /\ first.tier = "unknown"
                /\ ecosystem \notin {"github", "maven", "nuget"}
                /\ registry[p.name] /= <<>>
        THEN ResolvedEntry(first, ecosystem, registry[p.name][1], cfg)
        ELSE first

WithoutBlame(e) == [e EXCEPT !.introduced_by = "absent"]

RECURSIVE SoloEntries(_)
(* SoloEntry of the first n records, as a sequence *)
SoloEntries(n) ==
    IF n = 0 THEN <<>> ELSE Append(SoloEntries(n - 1), SoloEntry(packages[n]))

RECURSIVE EntriesWithoutBlame(_)
EntriesWithoutBlame(entries) ==
    IF entries = <<>> THEN <<>>
    ELSE <<WithoutBlame(Head(entries))>> \o EntriesWithoutBlame(Tail(entries))

TierAssignments ==
    [b \in Buckets |->
        [i \in 1..Len(results[b]) |->
            <<results[b][i].name, results[b][i].license, results[b][i].tier>>]]

(* C9: with the same configuration and registry answers the entry of a record
   is the one it gets when classified alone, whatever its position and the
   other records of the list; and a second classification of the same list
   gives the same license and tier assignments, bucket by bucket. *)
C9_ClassificationIsDeterministic ==
    Classified =>
        LET solo == SoloEntries(Len(packages))
            got == EntriesWithoutBlame(Flat)
        IN  /\ Len(Flat) = Len(packages)
            /\ \A k \in 1..Len(packages) :
                  Cardinality({j \in 1..Len(Flat) : got[j] = solo[k]})
                      = Cardinality({m \in 1..Len(packages) : solo[m] = solo[k]})
            /\ prev /= <<>> => TierAssignments = prev[1]

C9_Witness ==
    /\ prev /= <<>>
    /\ pc = "classified"
    /\ Len(packages) = 2
    /\ packages[1].name = Leftpad
    /\ packages[2].name = React
    /\ lookups = <<React>>
    /\ Len(results.restrictive) = 2

(* C10: in every successful scan result each summary count is the size of its
   bucket, total is the sum of the five counts, and has_violations holds
   exactly when the restrictive count is positive, that is when
   violations.high is not empty. *)
C10_SummaryMatchesBuckets ==
    (pc = "returned" /\ output[1].error = <<>>) =>
        LET o == output[1]
        IN  /\ o.summary.permissive = Len(results.permissive)
            /\ o.summary.weak_copyleft = Len(o.violations.medium)
            /\ o.summary.restrictive = Len(o.violations.high)
            /\ o.summary.custom = Len(o.custom)
            /\ o.summary.unknown = Len(o.unknown)
            /\ o.summary.total = o.summary.permissive + o.summary.weak_copyleft
                                 + o.summary.restrictive + o.summary.custom
                                 + o.summary.unknown
            /\ o.has_violations <=> (o.summary.restrictive > 0)
            /\ o.has_violations <=> (o.violations.high /= <<>>)

C10_Witness ==
    /\ pc = "returned"
    /\ output[1].error = <<>>
    /\ output[1].summary.total = 2
    /\ output[1].summary.restrictive = 1
    /\ output[1].summary.unknown = 1
    /\ output[1].has_violations
    /\ output[1].violations.high[1].introduced_by = "found"

----------------------------------------------------------------------------
(* Properties of evaluate_spdx_expr and find_override (SpecEval) *)

(* the rank order the specification states: permissive < weak_copyleft <
   restrictive < unknown; a tier outside the first three ranks with unknown *)
StatedRank(tier) ==
    IF tier = "permissive" THEN 0
    ELSE IF tier = "weak_copyleft" THEN 1
    ELSE IF tier = "restrictive" THEN 2
    ELSE 3

NormOf(p) == normalize_license(p, cfg)
TierOf(p) == classify_license(NormOf(p), cfg)
RankOf(p) == StatedRank(TierOf(p))

Evaluated == call.fn = "evaluate_spdx_expr" /\ ret /= <<>>

MinRank(parts) ==
    CHOOSE r \in 0..3 : /\ \E i \in 1..Len(parts) : RankOf(parts[i]) = r
                        /\ \A i \in 1..Len(parts) : RankOf(parts[i]) >= r
MaxRank(parts) ==
    CHOOSE r \in 0..3 : /\ \E i \in 1..Len(parts) : RankOf(parts[i]) = r
                        /\ \A i \in 1..Len(parts) : RankOf(parts[i]) <= r

(* the first part of the given rank *)
FirstOfRank(parts, r) ==
    parts[CHOOSE i \in 1..Len(parts) :
            /\ RankOf(parts[i]) = r
            /\ \A j \in 1..(i - 1) : RankOf(parts[j]) /= r]

(* some part of the given rank is what the call returned *)
ReturnsPartOfRank(parts, r) ==
    \E i \in 1..Len(parts) :
        /\ RankOf(parts[i]) = r
        /\ ret[1] = <<NormOf(parts[i]), TierOf(parts[i])>>

IsOrExpr == Contains(call.arg, SepOr)
IsAndExpr == ~Contains(call.arg, SepOr) /\ Contains(call.arg, SepAnd)
IsTightSlash ==
    /\ ~Contains(call.arg, SepOr) /\ ~Contains(call.arg, SepAnd)
    /\ Contains(call.arg, SepSlash) /\ ~Contains(call.arg, <<" ">>)
IsSpacedSlash ==
    /\ ~Contains(call.arg, SepOr) /\ ~Contains(call.arg, SepAnd)
    /\ Contains(call.arg, SepSpSlash)
SlashPartsOfCall ==
    IF IsTightSlash THEN SlashParts(call.arg, SepSlash) ELSE SlashParts(call.arg, SepSpSlash)

(* C3 (as claimed): a name that equals one override key exactly and also
   matches a different glob key gets the exact key's override, whatever the
   order of the entries. *)
C3_ExactBeforeGlob ==
    (call.fn = "find_override" /\ ret /= <<>>) =>
        \A i \in 1..Len(cfg.license_overrides) :
            LET ov == cfg.license_overrides
            IN  (/\ ov[i].pattern = call.arg
                 /\ \E j \in 1..Len(ov) :
                        /\ ov[j].pattern /= call.arg
                        /\ FnMatch(call.arg, ov[j].pattern))
                => ret[1] = <<ov[i].override>>

(* C4 (as claimed): for operands joined by " OR " the call returns the most
   permissive operand's tier together with that operand's normalized form. *)
C4_OrReturnsAnOperand ==
    (Evaluated /\ IsOrExpr) =>
        LET ops == OperandParts(call.arg, SepOr)
        IN  ReturnsPartOfRank(ops, MinRank(ops))

(* C4 (amended): for operands joined by " OR ", if some operand is
   permissive, weak_copyleft or restrictive the call returns the first operand
   of the most permissive rank, normalized, with its tier; if none is, it
   returns the whole expression unchanged with tier unknown. *)
C4_OrPicksMostPermissive ==
    (Evaluated /\ IsOrExpr) =>
        LET ops == OperandParts(call.arg, SepOr)
            best == FirstOfRank(ops, MinRank(ops))
        IN  IF MinRank(ops) < 3
            THEN ret[1] = <<NormOf(best), TierOf(best)>>
            ELSE ret[1] = <<call.arg, "unknown">>

C4_Witness ==
    /\ Evaluated /\ IsOrExpr
    /\ call.arg = Join(<<S("GPL"), S("ASL"), S("MIT")>>, SepOr)
    /\ ret[1] = <<S("Apache"), "permissive">>

(* C5 (as claimed): for operands joined by " AND " (no " OR ") the call
   returns the most restrictive operand's tier with that operand's normalized
   form, also when all operands are permissive. *)
C5_AndReturnsAnOperand ==
    (Evaluated /\ IsAndExpr) =>
        LET ops == OperandParts(call.arg, SepAnd)
        IN  ReturnsPartOfRank(ops, MaxRank(ops))

(* C5 (amended): for operands joined by " AND " (no " OR "), if some operand
   ranks above permissive the call returns the first operand of the most
   restrictive rank, normalized, with its tier; if all operands are permissive
   it returns the whole expression unchanged with tier permissive. *)
C5_AndPicksMostRestrictive ==
    (Evaluated /\ IsAndExpr) =>
        LET ops == OperandParts(call.arg, SepAnd)
            worst == FirstOfRank(ops, MaxRank(ops))
        IN  IF MaxRank(ops) > 0
            THEN ret[1] = <<NormOf(worst), TierOf(worst)>>
            ELSE ret[1] = <<call.arg, "permissive">>

C5_Witness ==
    /\ Evaluated /\ IsAndExpr
    /\ call.arg = Join(<<S("MIT"), S("GPL"), S("LGPL")>>, SepAnd)
    /\ ret[1] = <<S("GPL"), "restrictive">>

(* C6 (as claimed): "A/B" without spaces or "A / B" is split iff some part is
   recognized, and then the most permissive part and its tier are returned;
   with no part recognized the whole string is normalized and classified. *)
C6_SlashReturnsAPart ==
    (Evaluated /\ (IsTightSlash \/ IsSpacedSlash)) =>
        LET parts == SlashPartsOfCall
        IN  IF \E i \in 1..Len(parts) : TierOf(parts[i]) /= "unknown"
            THEN ReturnsPartOfRank(parts, MinRank(parts))
            ELSE ret[1] = <<NormOf(call.arg), TierOf(call.arg)>>

(* C6 (amended): "A/B" without spaces or "A / B" is split iff some part is
   recognized; then the first part of the most permissive rank is returned
   with its tier when a part is permissive, weak_copyleft or restrictive, and
   the whole string unchanged with tier unknown when the recognized parts are
   all of another tier (custom); with no part recognized the whole string is
   normalized and classified as one identifier. *)
C6_SlashSplitIffRecognized ==
    (Evaluated /\ (IsTightSlash \/ IsSpacedSlash)) =>
        LET parts == SlashPartsOfCall
            best == FirstOfRank(parts, MinRank(parts))
        IN  IF MinRank(parts) < 3
            THEN ret[1] = <<NormOf(best), TierOf(best)>>
            ELSE IF \E i \in 1..Len(parts) : TierOf(parts[i]) /= "unknown"
            THEN ret[1] = <<call.arg, "unknown">>
            ELSE ret[1] = <<NormOf(call.arg), TierOf(call.arg)>>

C6_Witness ==
    /\ Evaluated /\ IsTightSlash
    /\ call.arg = <<"Foo", "/", "Foo">>
    /\ cfg.license_tiers = TiersCustom
    /\ ret[1] = <<call.arg, "weak_copyleft">>

----------------------------------------------------------------------------
(* Properties of detect_package_manager (SpecDetect) *)

Detected == call.fn = "detect_package_manager" /\ ret /= <<>>

JsLockfiles == {"pnpm-lock.yaml", "yarn.lock", "package-lock.json"}

(* C11: foundry.toml makes the directory solidity whatever else it holds;
   without it pnpm-lock.yaml gives pnpm, else yarn.lock gives yarn, else
   package-lock.json gives npm, and package.json is not even read when one
   of the three lockfiles is there *)
C11_DetectorPriority ==
    Detected =>
        LET files == call.arg.files
            expected ==
                IF "foundry.toml" \in files THEN <<"solidity">>
                ELSE IF "pnpm-lock.yaml" \in files THEN <<"pnpm">>
                ELSE IF "yarn.lock" \in files THEN <<"yarn">>
                ELSE <<"npm">>
        IN  (files \cap (JsLockfiles \cup {"foundry.toml"}) /= {}) =>
                ret[1] = Returned(expected)

(* a lockfile next to a package.json whose packageManager field names
   another package manager, and the lockfile won *)
C11_Witness ==
    /\ Detected
    /\ call.arg.files = {"package-lock.json"}
    /\ call.arg.pkg_json.packageManager = StrField(<<"pnpm", "@", "8">>)
    /\ ret[1] = Returned(<<"npm">>)

(* C12: None is returned only for a directory with no marker file of any
   ecosystem, package.json included *)
C12_UndeterminedOnlyWithoutMarker ==
    (Detected /\ ret[1] = Returned(<<>>)) =>
        (call.arg.files = {} /\ ~call.arg.pkg_json.exists)

----------------------------------------------------------------------------
(* Properties of the registry lookup clients (SpecLookup) *)

LookedUp ==
    /\ call.fn \in {"lookup_npm_license", "lookup_pypi_license",
                    "lookup_crates_io_license", "lookup_github_license"}
    /\ ret /= <<>>

(* C16: whatever the registry answers, the lookup hands back a license or
   nothing and never raises; a network error, a timeout, an HTTP error and
   an undecodable body give nothing *)
C16_LookupFailureIsNonFatal ==
    LookedUp =>
        /\ ret[1].raised = ""
        /\ (call.arg.outcome /= "ok") => ret[1] = Returned(<<>>)

----------------------------------------------------------------------------
(* Properties of trace_blame_for_violations (SpecBlame) *)

Traced(i) == i <= Len(blame)

(* the tool or the structural fallback gave a chain for the package *)
ChainDetermined(name) ==
    \/ project.tool_ok
    \/ pm[1] /= "cargo" /\ JsFallback(project, pm[1], name) /= <<>>

(* C14: for pnpm, npm, yarn and cargo, a blame record of a package that no
   manifest declares names the direct dependency the package comes through
   and has that dependency and the package in its chain whenever a chain was
   determined; it names the package itself only if the package is declared
   or no chain was determined; it never names the project *)
C14_BlameNamesTheDirectDependency ==
    (pc = "blame_done" /\ pm[1] \in ChainPms) =>
        \A i \in 1..Len(blame) :
            blame[i] /= <<>> =>
                LET name == Violations[i].name
                    b == blame[i][1]
                    path == PathTo(project, name)
                    InChain(n) == \E k \in 1..Len(b.dependency_chain) :
                                      b.dependency_chain[k] = n
                IN  /\ (name \notin project.declared /\ ChainDetermined(name)) =>
                           /\ b.direct_dependency = path[1]
                           /\ InChain(path[1])
                           /\ InChain(name)
                    /\ b.direct_dependency = name =>
                           (name \in project.declared \/ ~ChainDetermined(name))
                    /\ b.direct_dependency /= project.root

(* what the tracer gives a record when nothing else is traced *)
BlameAlone(name) ==
    IF name \in project.raises THEN <<>> ELSE TraceBlame(project, repo.shallow, pm[1], name)

(* C15: an exception while one record is traced never leaves the function;
   that record gets None, the records traced before it keep what they got,
   and every record after it is traced as if nothing had happened *)
C15_TracingFailureIsContained ==
    /\ pc /= "crashed"
    /\ (pc \in {"blame_loop", "blame_done"} /\ _get_manifest_pathspecs(pm[1]) /= <<>>) =>
          /\ pc = "blame_loop" => Len(blame) = idx - 1
          /\ \A i \in 1..Len(Violations) :
                IF Traced(i)
                THEN /\ blame[i] = BlameAlone(Violations[i].name)
                     /\ Violations[i] = SetBlame(Violation(Violations[i].name), blame[i])
                ELSE Violations[i] = Violation(Violations[i].name)
          /\ pc = "blame_done" => Len(blame) = Len(Violations)

(* tracing the first record raised, and the second one got its blame *)
C15_Witness ==
    /\ pc = "blame_done"
    /\ Len(Violations) = 2
    /\ Violations[1].name \in project.raises
    /\ Violations[1].introduced_by = "None"
    /\ Violations[2].introduced_by = "found"
    /\ blame[2] /= <<>>

----------------------------------------------------------------------------
(* C13: the process exits with status 2 exactly when the scan result holds
   at least one restrictive dependency; every other way out of the program
   uses a different status *)
Exited == pc = "exited"

ScanResult == proc.stdout /= <<>> /\ proc.stdout[1].error = <<>>

HasRestrictive == ScanResult /\ proc.stdout[1].summary.restrictive > 0

C13_ExitTwoIffRestrictive ==
    Exited => (proc.exit = <<2>> <=> HasRestrictive)

(* C17: within one scan no package's licence is requested from a registry
   more than once: an ecosystem whose extractor asked the registry is not
   asked again by the second pass of classify_packages *)
AskedByExtractor(i) == i <= Len(project.locked)

RegistryAsked(i) ==
    IF ~AskedByExtractor(i) THEN ecosystem
    ELSE IF pm[1] = "solidity" THEN "github"
    ELSE EcosystemOf(pm[1])

C17_NoPackageLookedUpTwice ==
    \A i, j \in 1..Len(lookups) :
        (lookups[i] = lookups[j] /\ RegistryAsked(i) = RegistryAsked(j)) => i = j

(* C18: when the native tool of the ecosystem is not installed or exits
   non-zero, extraction stops and scan_project returns an error payload; no
   dependency list is produced by another route *)
NativeToolPms == {"pnpm", "cargo"}

ToolFailed ==
    /\ pm /= <<>>
    /\ pm[1] \in NativeToolPms
    /\ project.tool \in {"missing", "nonzero_silent", "nonzero_listing"}

C18_ToolFailureStopsTheScan ==
    ToolFailed =>
        /\ packages = <<>>
        /\ pc \in {"scan", "extracted", "returned", "exited"}
        /\ output /= <<>> => output[1].error /= <<>>

(* C19: every run that fails (detection, extraction, clone or install) writes
   a JSON payload with an error field to stdout, and no exception reaches the
   caller *)
FailedRun ==
    /\ Exited
    /\ project.argv_ok
    /\ project.config_ok
    /\ ~ScanResult

C19_FailuresAreJsonPayloads ==
    FailedRun =>
        /\ ~proc.traceback
        /\ proc.stdout /= <<>>
        /\ proc.stdout[1].error /= <<>>

----------------------------------------------------------------------------
(* the second pass of classify_packages, seen from its result *)

RegistryAnswers(entry, queried) == queried /\ registry[entry.name] /= <<>>

SecondPassTier(entry, queried) ==
    IF RegistryAnswers(entry, queried)
    THEN evaluate_spdx_expr(registry[entry.name][1], cfg)[2]
    ELSE "unknown"

PlacedIn(b, queried) ==
    SelectSeq(unknown_pkgs, LAMBDA entry : SecondPassTier(entry, queried) = b)

LastN(seq, n) == SubSeq(seq, Len(seq) - n + 1, Len(seq))

NamesOf(entries) == [i \in 1..Len(entries) |-> entries[i].name]

SecondPassDoes(queried) ==
    pc = "classified" =>
        /\ lookups = IF queried THEN NamesOf(unknown_pkgs) ELSE <<>>
        /\ \A b \in Buckets :
              LET placed == PlacedIn(b, queried)
                  got == LastN(results[b], Len(placed))
              IN  /\ Len(placed) <= Len(results[b])
                  /\ \A k \in 1..Len(placed) :
                        IF RegistryAnswers(placed[k], queried)
                        THEN LET lt == evaluate_spdx_expr(registry[placed[k].name][1], cfg)
                             IN  /\ got[k].name = placed[k].name
                                 /\ got[k].version = placed[k].version
                                 /\ got[k].license = lt[1]
                                 /\ got[k].tier = lt[2]
                                 /\ got[k].resolved_via = <<source_tag(ecosystem), "_registry">>
                        ELSE got[k] = placed[k]
        /\ Len(Flat) = Len(packages)
        /\ \A b \in Buckets : \A k \in 1..Len(results[b]) :
              results[b][k].resolved_via /= <<>> => RegistryAnswers(results[b][k], queried)

(* C20 as stated: every record the first pass left unknown is queried in the
   registry by name and version; with a licence returned it gets the licence
   and tier evaluate_spdx_expr computes, lands in that tier's bucket and is
   tagged resolved_via; with nothing returned it lands in the unknown bucket
   unchanged; no record is dropped or duplicated and only a record the
   registry answered for carries resolved_via *)
C20_SecondPassQueriesEveryUnknown == SecondPassDoes(TRUE)

(* C20 amended: the same, for the ecosystems npm, cargo and pypi; for github,
   maven and nuget no registry is queried and every record the first pass
   left unknown lands in the unknown bucket unchanged, without resolved_via *)
C20_SecondPassResolvesUnknowns ==
    SecondPassDoes(ecosystem \notin {"github", "maven", "nuget"})

C20_Witness ==
    /\ pc = "classified"
    /\ ecosystem = "npm"
    /\ Len(unknown_pkgs) = 2
    /\ lookups = <<React, React>>
    /\ Len(results.restrictive) = 2
    /\ results.restrictive[1].resolved_via = <<"npm", "_registry">>
    /\ results.restrictive[1].raw_license /= results.restrictive[2].raw_license

----------------------------------------------------------------------------
(* C21: a scan for which scan_project returns an error payload (tool not
   usable, extraction failed) ends the process with a non-zero status; status
   0 is reached only by a scan that produced a classification without
   restrictive dependencies *)
ErrorPayloadPrinted ==
    /\ Exited
    /\ output /= <<>>
    /\ output[1].error /= <<>>
    /\ proc.stdout = output

C21_FailedScanExitsNonZero ==
    /\ ErrorPayloadPrinted => proc.exit /= <<0>>
    /\ (Exited /\ proc.exit = <<0>>) => (ScanResult /\ ~HasRestrictive)

----------------------------------------------------------------------------
(* C22: blame tracing is applied only to high-severity entries: every entry
   scan_project hands to the tracer (it comes back with introduced_by set, to
   None or to a blame record) has severity HIGH; an entry whose severity the
   dev reduction lowered is not traced *)
C22_OnlyHighSeverityIsTraced ==
    \A b \in Buckets : \A k \in 1..Len(results[b]) :
        results[b][k].introduced_by /= "absent" => results[b][k].severity = "HIGH"

----------------------------------------------------------------------------
(* C23: history deepening in trace_blame_for_violations.  On a shallow
   repository the deepening is attempted exactly once per call and before the
   first history search; on a complete one it is never attempted; and when
   the deepening fails every record of the call ends with no blame found *)
BlameDone == pc = "blame_done" /\ Violations /= <<>>

Attempts == Len(SelectSeq(repo.log, LAMBDA c : c = FetchUnshallow))

C23_DeepeningOnceAndFailureMeansNoBlame ==
    /\ (BlameDone /\ project.shallow) => (Attempts = 1 /\ repo.log[1] = FetchUnshallow)
    /\ (pc \in {"blame_call", "blame_loop", "blame_done"} /\ ~project.shallow) => Attempts = 0
    /\ (BlameDone /\ project.shallow /\ ~project.unshallow_ok) =>
           \A i \in 1..Len(blame) : blame[i] = <<>>

(* C24: for a package manager without manifest pathspec the tracer is a
   silent no-op: every record comes back with no blame and otherwise
   unchanged, and no git command, neither history search nor deepening, is
   run *)
C24_UnknownPathspecRunsNoGit ==
    (BlameDone /\ _get_manifest_pathspecs(pm[1]) = <<>>) =>
        /\ \A i \in 1..Len(Violations) :
              /\ blame[i] = <<>>
              /\ Violations[i] = SetBlame(Violation(Violations[i].name), <<>>)
        /\ repo.log = <<>>

----------------------------------------------------------------------------
(* C25: every extractor emits one record per unique (name, version) pair:
   the list it returns never holds two records with the same name and the
   same version, whatever the manifest or lockfile contains *)
C25_OneRecordPerNameAndVersion ==
    ret /= <<>> =>
        \A i, j \in 1..Len(ret[1]) :
            (ret[1][i].name = ret[1][j].name /\ ret[1][i].version = ret[1][j].version)
                => i = j

----------------------------------------------------------------------------
(* C30: the temporary clone directory of a --repo scan no longer exists when
   the process ends, on every path: clone failure, no package manager
   detected, install failure, scan returning an error, scan succeeding, exit
   2 for violations, and an exception raised during detection or scanning *)
C30_CloneDirectoryIsRemoved ==
    (Exited /\ project.repo) => tmpdir /= "exists"

----------------------------------------------------------------------------
(* org_scanner.py: run_scans, save_tracker, get_scan_candidates, build_output *)

NamesIn(names) == {names[j] : j \in 1..Len(names)}

RunScansReturned == pc \in {"org_output", "org_done"}

OutcomesIn(kinds) ==
    Cardinality({j \in 1..Len(org.outcomes) : org.outcomes[j][2] \in kinds})

(* C26: whatever way the scans of the candidates end (clean, violations,
   non-zero exit, timeout, output that is not JSON, error payload), when
   run_scans returns every candidate has been processed, in the order of the
   candidates; scanned + errors is the number of candidates; a repository
   with violations is counted as scanned, listed under violations and has no
   scan_error *)
C26_EveryCandidateIsProcessed ==
    RunScansReturned =>
        /\ [j \in 1..Len(org.outcomes) |-> org.outcomes[j][1]] = org.candidates
        /\ org.results.scanned + org.results.errors = Len(org.candidates)
        /\ org.results.scanned = OutcomesIn({"clean", "violations"})
        /\ org.results.errors =
               OutcomesIn({"nonzero_exit", "timeout", "not_json", "error_payload"})
        /\ \A j \in 1..Len(org.outcomes) :
               org.outcomes[j][2] = "violations" =>
                   /\ org.outcomes[j][1] \in NamesIn(org.results.violations)
                   /\ tracker.repos[org.outcomes[j][1]].scan_error = <<>>
                   /\ tracker.repos[org.outcomes[j][1]].last_scanned = <<org.now>>

C26_Witness ==
    /\ pc = "org_done"
    /\ Len(org.candidates) = 2
    /\ org.outcomes[1][2] = "timeout"
    /\ org.outcomes[2][2] = "violations"
    /\ org.results = [scanned |-> 1, errors |-> 1, violations |-> <<org.candidates[2]>>]

(* C27: when a run is interrupted inside run_scans, between two repositories
   or while the tracker file is being written, the tracker file is a whole
   document that loads, and it holds the outcome of every repository whose
   turn of the loop had ended *)
C27_InterruptedRunLeavesLoadableTracker ==
    (pc = "org_interrupted" /\ org.selected /\ org.after = "scan") =>
        LET loaded == load_tracker(disk)
        IN  /\ loaded.raised = ""
            /\ \A j \in 1..(org.i - 1) :
                   LET n == org.outcomes[j][1]
                   IN  /\ n \in DOMAIN loaded.value.repos
                       /\ loaded.value.repos[n] = tracker.repos[n]

(* the candidates have just been selected from the tracker as it is now *)
JustSelected ==
    /\ org.selected
    /\ org.outcomes = <<>>
    /\ pc \in {"org_scan", "org_save", "org_write"}

CandidateSet == NamesIn(org.candidates)

(* C28: get_scan_candidates selects, in the order of the tracker, exactly the
   repositories with a lockfile that are in --only (when given) and either
   were never scanned or, with --stale-days, were last scanned that many days
   ago or more; a repository that run_scans has processed and saved is not
   selected by a later run without --stale-days; a run interrupted
   after k of its n repositories and started again with the same arguments,
   without --stale-days, selects exactly the n - k that are left *)
C28_CandidatesAreTheUnscannedOrStale ==
    JustSelected =>
        /\ \A j \in 1..Len(tracker.names) :
               LET n == tracker.names[j]
                   info == tracker.repos[n]
               IN  n \in CandidateSet <=>
                       /\ info.has_lockfile = <<TRUE>>
                       /\ org.args.only = <<>> \/ n \in org.args.only[1]
                       /\ \/ info.last_scanned = <<>>
                          \/ /\ org.args.stale_days /= <<>>
                             /\ org.now - info.last_scanned[1]
                                    >= org.args.stale_days[1] * HalfDaysPerDay
        /\ org.candidates = SelectSeq(tracker.names, LAMBDA n : n \in CandidateSet)
        /\ org.args.stale_days = <<>> => CandidateSet \cap org.processed = {}
        /\ (/\ org.left /= <<>>
            /\ org.left[1].selected
            /\ org.args = org.left[1].args
            /\ org.args.stale_days = <<>>)
           => org.candidates = SubSeq(org.left[1].candidates, org.left[1].done + 1,
                                      Len(org.left[1].candidates))

C28_Witness ==
    /\ JustSelected
    /\ org.left /= <<>>
    /\ org.left[1].selected
    /\ org.args = org.left[1].args
    /\ org.args.stale_days = <<>>
    /\ Len(org.left[1].candidates) = 2
    /\ org.left[1].done = 1
    /\ org.candidates = <<org.left[1].candidates[2]>>
    /\ tracker.repos[org.left[1].candidates[1]].scan_error /= <<>>

(* C29: in the output of build_output the lists scanned_repos, error_repos
   and unscanned_repos have no repository in common, and
   repos_with_violations and the aggregate counts come from the repositories
   of scanned_repos only *)
C29_AggregatesOnlyFromScannedRepos ==
    (pc = "org_done" /\ output /= <<>>) =>
        LET o == output[1]
            scanned == NamesIn(o.scanned_repos)
            failed == NamesIn(o.error_repos)
            unscanned == NamesIn(o.unscanned_repos)
            count(key) == [n \in scanned |-> tracker.repos[n].last_result_summary[1][key]]
        IN  /\ scanned \cap failed = {}
            /\ scanned \cap unscanned = {}
            /\ failed \cap unscanned = {}
            /\ NamesIn(o.repos_with_violations) \subseteq scanned
            /\ o.aggregate_licenses.restrictive =
                   SumOf(o.scanned_repos, count("restrictive"))
            /\ o.aggregate_licenses.total = SumOf(o.scanned_repos, count("total"))

============================================================================
